---- MODULE Spec2Model ----
(***************************************************************************)
(* Verification model of the issue-review multi-agent analysis core:       *)
(*   - the Coordinator's priority score       (agents/coordinator.py)      *)
(*   - the tool-calling loop                  (llm/tools.py)               *)
(*   - the per-issue analysis graph           (agents/graph.py + agents)   *)
(*   - the report-level orchestrator + cache  (agents/report_graph.py,     *)
(*                                             analysis_store.py)          *)
(* Each subsystem has its own variables and its own specification; a       *)
(* specification leaves the variables of the other subsystems unchanged.   *)
(***************************************************************************)
EXTENDS Integers, Sequences, FiniteSets, TLC

VARIABLES
    \* ---- Coordinator scoring (agents/coordinator.py)
    final,          \* the FinalAnalysis being built by the Coordinator
    cpc,            \* "merged" (fields merged, score not computed) | "scored"
    \* ---- tool-calling loop (llm/tools.py, chat_with_tools)
    tpc,            \* AWAITING_MODEL | EXECUTING_TOOLS | FINAL_CALL | DONE
    max_iterations, \* the iteration budget N of this call
    iteration,      \* loop counter of `for iteration in range(max_iterations)`
    messages,       \* the transcript (local copy of the caller's messages)
    tool_calls,     \* the tool calls parsed from the current model turn
    model_calls,    \* number of client.chat.completions.create calls made
    tools_executed, \* number of execute_tool invocations made
    last_turn,      \* [tools: were tools offered, ncalls: calls requested, text]
    returned,       \* NoReturn or [content, messages]
    \* ---- per-issue analysis graph (agents/graph.py and the specialist nodes)
    include_personas,  \* toggle of create_analysis_graph
    include_platform,  \* toggle of create_analysis_graph
    gpc,            \* "specialists" | "coordinator" | "END" | "raised"
    gnode,          \* position of each specialist node
    gupdate,        \* the dict each finished node returned
    gstate,         \* the AnalysisState channels
    coordinator_runs,  \* how many times coordinator_node was entered
    \* ---- report-level orchestrator and cache (agents/report_graph.py,
    \*      analysis_store.py)
    analysis_file,  \* cache/analyses.json: [valid, entries]
    portfolio_file, \* cache/portfolio_analysis.json
    store_lock,     \* the threads holding _store_lock
    mpc,            \* position of generate_report_analysis (main thread)
    issues,         \* the input list of issue dicts
    force_reanalyze,
    skip_portfolio,
    max_workers,
    portfolio,      \* what phase 1 returned
    issue_order,    \* the dict issue number -> index
    results,        \* the list [None] * len(issues) being filled
    collected,      \* futures already yielded by as_completed
    upc,            \* position of each work unit (_analyze_single_issue)
    ucached,        \* each unit's local `cached`
    uloaded,        \* each unit's local `store` inside cache_analysis
    uresult,        \* each unit's `analysis`, then what its future holds
    portfolio_gaps, \* generate_report_analysis's local `portfolio_gaps`
    ugaps,          \* each unit's `portfolio_gaps` argument
    analyst_runs,   \* runs of the portfolio graph in this call
    \* ---- coordinator_node in full (agents/coordinator.py, llm/guardrails.py)
    cstate,         \* the AnalysisState coordinator_node is called with
    cpos,           \* "start" | "built" | "returned"
    cfinal,         \* the local `final` of coordinator_node
    guardrail_result,  \* the GuardrailResult of this run, or None
    cprev,          \* what the previous run on the same state returned, or None
    \* ---- one call of a function of the program
    fcall,          \* the function called, "none" before any call
    fargs,          \* its arguments
    fret            \* Pending, or how the call ended

varsScore == <<final, cpc>>
varsTools == <<tpc, max_iterations, iteration, messages, tool_calls,
               model_calls, tools_executed, last_turn, returned>>
varsGraph == <<include_personas, include_platform, gpc, gnode, gupdate, gstate,
               coordinator_runs>>
varsBatch == <<analysis_file, portfolio_file, store_lock, mpc, issues,
               force_reanalyze, skip_portfolio, max_workers, portfolio,
               issue_order, results, collected, upc, ucached, uloaded, uresult,
               portfolio_gaps, ugaps, analyst_runs>>
varsMerge == <<cstate, cpos, cfinal, guardrail_result, cprev>>
varsCall == <<fcall, fargs, fret>>
vars == <<final, cpc, tpc, max_iterations, iteration, messages, tool_calls,
          model_calls, tools_executed, last_turn, returned,
          include_personas, include_platform, gpc, gnode, gupdate, gstate,
          coordinator_runs,
          analysis_file, portfolio_file, store_lock, mpc, issues,
          force_reanalyze, skip_portfolio, max_workers, portfolio,
          issue_order, results, collected, upc, ucached, uloaded, uresult,
          portfolio_gaps, ugaps, analyst_runs,
          cstate, cpos, cfinal, guardrail_result, cprev,
          fcall, fargs, fret>>

\* What the actions of one subsystem leave alone.
othersScore == <<varsTools, varsGraph, varsBatch, varsMerge, varsCall>>
othersTools == <<varsScore, varsGraph, varsBatch, varsMerge, varsCall>>
othersGraph == <<varsScore, varsTools, varsBatch, varsMerge, varsCall>>
othersBatch == <<varsScore, varsTools, varsGraph, varsMerge, varsCall>>
othersMerge == <<varsScore, varsTools, varsGraph, varsBatch, varsCall>>
othersCall == <<varsScore, varsTools, varsGraph, varsBatch, varsMerge>>

SeqsUpTo(S, n) == UNION {[1..k -> S] : k \in 0..n}

Min(a, b) == IF a < b THEN a ELSE b
Max(a, b) == IF a > b THEN a ELSE b

(***************************************************************************)
(* Data model (agents/state.py)                                            *)
(***************************************************************************)
OverlapLevel == {"UNIQUE", "POSSIBLE_OVERLAP", "UNCLEAR"}
DevelopmentStage == {"HAS_CODE", "DETAILED_PLAN", "DETAILED_CONCEPT", "CONCEPT_SUMMARY"}
BroadAppeal == {"UNIVERSAL", "BUSINESS_SPECIFIC", "TECHNICAL_ONLY"}

\* Feature IDs of the feature catalog and gap labels the Coordinator can emit.
FeatureIds == {"vllm", "rag"}
GapLabels == {"Industry: Healthcare", "Use Case: Fraud Detection", "Capability: Speech"}

\* Longest features_new list explored.
MaxNew == 3

\* Lists without repetition (the gap list is deduplicated by the Coordinator).
DistinctSeqs(S) == {s \in SeqsUpTo(S, Cardinality(S)) :
                      \A i, j \in 1..Len(s) : i # j => s[i] # s[j]}

\* FinalAnalysis() as constructed with no arguments: the dataclass defaults.
FinalAnalysis ==
    [overlap_level |-> "UNCLEAR",
     development_stage |-> "CONCEPT_SUMMARY",
     broad_appeal |-> "TECHNICAL_ONLY",
     features_new |-> <<>>,
     fills_portfolio_gap |-> <<>>,
     priority_score |-> 5]

(***************************************************************************)
(* Coordinator: priority score (agents/coordinator.py)                     *)
(***************************************************************************)
\* Mutant: the stage penalty of CONCEPT_SUMMARY applied as -2 instead of -3.
_calculate_priority_score_wrong_stage(analysis) ==
    LET s0 == 4
        s1 == IF analysis.overlap_level = "UNIQUE" THEN s0 + 1
              ELSE IF analysis.overlap_level = "UNCLEAR" THEN s0 - 1
              ELSE s0
        s2 == IF analysis.development_stage = "HAS_CODE" THEN s1 + 2
              ELSE IF analysis.development_stage = "DETAILED_PLAN" THEN s1 + 1
              ELSE IF analysis.development_stage = "DETAILED_CONCEPT" THEN s1
              ELSE s1 - 2
        s3 == IF analysis.broad_appeal = "UNIVERSAL" THEN s2 + 1
              ELSE IF analysis.broad_appeal = "TECHNICAL_ONLY" THEN s2 - 1
              ELSE s2
        s4 == IF analysis.features_new # <<>>
              THEN s3 + Min(Len(analysis.features_new), 2) ELSE s3
        s5 == IF analysis.fills_portfolio_gap # <<>>
              THEN s4 + Min(Len(analysis.fills_portfolio_gap), 2) ELSE s4
    IN  Max(1, Min(10, s5))

_calculate_priority_score(analysis) ==
    LET s0 == 4
        s1 == IF analysis.overlap_level = "UNIQUE" THEN s0 + 1
              ELSE IF analysis.overlap_level = "UNCLEAR" THEN s0 - 1
              ELSE s0
        s2 == IF analysis.development_stage = "HAS_CODE" THEN s1 + 2
              ELSE IF analysis.development_stage = "DETAILED_PLAN" THEN s1 + 1
              ELSE IF analysis.development_stage = "DETAILED_CONCEPT" THEN s1
              ELSE s1 - 3
        s3 == IF analysis.broad_appeal = "UNIVERSAL" THEN s2 + 1
              ELSE IF analysis.broad_appeal = "TECHNICAL_ONLY" THEN s2 - 1
              ELSE s2
        s4 == IF analysis.features_new # <<>>
              THEN s3 + Min(Len(analysis.features_new), 2) ELSE s3
        s5 == IF analysis.fills_portfolio_gap # <<>>
              THEN s4 + Min(Len(analysis.fills_portfolio_gap), 2) ELSE s4
    IN  Max(1, Min(10, s5))

\* The FinalAnalysis values the merge can have produced before scoring.
MergedAnalyses ==
    {[FinalAnalysis EXCEPT !.overlap_level = o, !.development_stage = s,
                           !.broad_appeal = a, !.features_new = n,
                           !.fills_portfolio_gap = g] :
        o \in OverlapLevel, s \in DevelopmentStage, a \in BroadAppeal,
        n \in SeqsUpTo(FeatureIds, MaxNew), g \in DistinctSeqs(GapLabels)}

ScoreInit == final \in MergedAnalyses /\ cpc = "merged"
ScoreIdle == final = FinalAnalysis /\ cpc = "idle"

\* coordinator_node, line 76: final.priority_score = _calculate_priority_score(final)
CoordinatorScore ==
    /\ cpc = "merged"
    /\ final' = [final EXCEPT !.priority_score = _calculate_priority_score(final)]
    /\ cpc' = "scored"
    /\ UNCHANGED othersScore

(***************************************************************************)
(* Tool-calling loop (llm/tools.py)                                        *)
(***************************************************************************)
NoReturn == [content |-> "none", messages |-> <<>>]
NoTurn == [tools |-> FALSE, ncalls |-> 0, text |-> "none"]

\* Largest iteration budget and largest number of tool calls in one model turn.
MaxIter == 3
MaxCalls == 2
\* Cap on the tool calls explored in one conversation (all turns together).
MaxToolCalls == 4

\* The fixed toolset handed to chat_with_tools, and a name outside it.
ToolNames == {"semantic_search"}
UnknownToolName == "no_such_tool"

\* message.content of a model turn: None ("NULL") or a text.
Texts == {"NULL", "answer"}
\* `message.content or ""`
ContentOrEmpty(text) == IF text = "NULL" THEN "" ELSE text

\* The messages the caller passes in (system + user prompt).
InitialMessages == <<[role |-> "system"], [role |-> "user"]>>

\* One ToolCall of a model turn. `behaviour` is what the tool's function does
\* when called with the arguments of this call (environment, not code).
ToolCallsOfTurn(it) ==
    LET Kinds == {[name |-> n, behaviour |-> b] :
                    n \in ToolNames, b \in {"returns", "raises"}}
                 \cup {[name |-> UnknownToolName, behaviour |-> "returns"]}
    IN  {[i \in 1..Len(ks) |-> [id |-> <<it, i>>, name |-> ks[i].name,
                                behaviour |-> ks[i].behaviour]] :
            ks \in SeqsUpTo(Kinds, MaxCalls)}

\* Mutant: execute_tool without its try/except: the tool's exception escapes.
execute_tool_unguarded(tool_call, available_tools) ==
    IF tool_call.name \notin available_tools
    THEN [tool_call_id |-> tool_call.id, result |-> "error: Unknown tool"]
    ELSE IF tool_call.behaviour = "raises"
    THEN [tool_call_id |-> tool_call.id, result |-> "RAISE"]
    ELSE [tool_call_id |-> tool_call.id, result |-> "tool output"]

\* execute_tool: a ToolResult for this call; "RAISE" would stand for an
\* exception leaving the function (the code catches every Exception).
execute_tool(tool_call, available_tools) ==
    IF tool_call.name \notin available_tools
    THEN [tool_call_id |-> tool_call.id, result |-> "error: Unknown tool"]
    ELSE IF tool_call.behaviour = "raises"
    THEN [tool_call_id |-> tool_call.id, result |-> "error: exception text"]
    ELSE [tool_call_id |-> tool_call.id, result |-> "tool output"]

execute_tools(calls, available_tools) ==
    [i \in 1..Len(calls) |-> execute_tool(calls[i], available_tools)]

\* A variant that emits the tool messages in reverse order.
tool_results_to_messages_reversed(tool_results) ==
    [i \in 1..Len(tool_results) |->
        [role |-> "tool",
         tool_call_id |-> tool_results[Len(tool_results) + 1 - i].tool_call_id,
         content |-> tool_results[Len(tool_results) + 1 - i].result]]

tool_results_to_messages(tool_results) ==
    [i \in 1..Len(tool_results) |->
        [role |-> "tool", tool_call_id |-> tool_results[i].tool_call_id,
         content |-> tool_results[i].result]]

\* The assistant message appended for a turn that requested tool calls.
AssistantMessage(text, calls) ==
    [role |-> "assistant", content |-> text,
     tool_calls |-> [i \in 1..Len(calls) |->
                        [id |-> calls[i].id, name |-> calls[i].name]]]

\* Mutant: the loop bound off by one (an extra tool turn before the forced call).
LoopContinues_off_by_one(it, n) == it <= n

\* `for iteration in range(max_iterations)`: is there another loop iteration?
LoopContinues(it, n) == it < n

ToolsInit ==
    /\ tpc = "AWAITING_MODEL"
    /\ max_iterations \in 0..MaxIter
    /\ iteration = 0
    /\ messages = InitialMessages
    /\ tool_calls = <<>>
    /\ model_calls = 0
    /\ tools_executed = 0
    /\ last_turn = NoTurn
    /\ returned = NoReturn

ToolsIdle ==
    /\ tpc = "idle" /\ max_iterations = 0 /\ iteration = 0 /\ messages = <<>>
    /\ tool_calls = <<>> /\ model_calls = 0 /\ tools_executed = 0
    /\ last_turn = NoTurn
    /\ returned = NoReturn

\* One loop iteration up to the decision: the model call with tools offered,
\* parse_tool_calls, and either the return or the appended assistant message.
ModelTurn ==
    /\ tpc = "AWAITING_MODEL"
    /\ LoopContinues(iteration, max_iterations)
    /\ \E calls \in ToolCallsOfTurn(iteration), text \in Texts :
         /\ tools_executed + Len(calls) <= MaxToolCalls
         /\ model_calls' = model_calls + 1
         /\ last_turn' = [tools |-> TRUE, ncalls |-> Len(calls), text |-> text]
         /\ tool_calls' = calls
         /\ IF calls = <<>>
            THEN /\ returned' = [content |-> ContentOrEmpty(text), messages |-> messages]
                 /\ tpc' = "DONE"
                 /\ UNCHANGED messages
            ELSE /\ messages' = Append(messages, AssistantMessage(text, calls))
                 /\ tpc' = "EXECUTING_TOOLS"
                 /\ UNCHANGED returned
    /\ UNCHANGED <<max_iterations, iteration, tools_executed>>
    /\ UNCHANGED othersTools

\* The rest of the iteration: execute_tools and messages.extend(...).
ExecuteTools ==
    /\ tpc = "EXECUTING_TOOLS"
    /\ LET tool_results == execute_tools(tool_calls, ToolNames)
           raised == {i \in 1..Len(tool_results) : tool_results[i].result = "RAISE"}
       IN  IF raised = {}
           THEN /\ messages' = messages \o tool_results_to_messages(tool_results)
                /\ tools_executed' = tools_executed + Len(tool_calls)
                /\ iteration' = iteration + 1
                /\ tpc' = "AWAITING_MODEL"
           ELSE \* an exception leaves execute_tools at the first raising call
                /\ tools_executed' = tools_executed +
                       (CHOOSE i \in raised : \A j \in raised : i <= j)
                /\ tpc' = "RAISED"
                /\ UNCHANGED <<messages, iteration>>
    /\ UNCHANGED <<max_iterations, tool_calls, model_calls, last_turn, returned>>
    /\ UNCHANGED othersTools

\* Budget exhausted: one final model call without tools; its text is returned.
FinalCall ==
    /\ tpc = "AWAITING_MODEL"
    /\ ~LoopContinues(iteration, max_iterations)
    /\ \E text \in Texts :
         /\ last_turn' = [tools |-> FALSE, ncalls |-> 0, text |-> text]
         /\ returned' = [content |-> ContentOrEmpty(text), messages |-> messages]
    /\ model_calls' = model_calls + 1
    /\ tpc' = "DONE"
    /\ UNCHANGED <<max_iterations, iteration, messages, tool_calls, tools_executed>>
    /\ UNCHANGED othersTools

\* client.chat.completions.create raises: nothing in chat_with_tools catches it.
ModelCallRaises ==
    /\ tpc = "AWAITING_MODEL"
    /\ model_calls' = model_calls + 1
    /\ last_turn' = [tools |-> LoopContinues(iteration, max_iterations),
                     ncalls |-> 0, text |-> "EXCEPTION"]
    /\ tpc' = "RAISED"
    /\ UNCHANGED <<max_iterations, iteration, messages, tool_calls,
                   tools_executed, returned>>
    /\ UNCHANGED othersTools

(***************************************************************************)
(* Per-issue analysis graph (agents/graph.py) and the specialist nodes     *)
(***************************************************************************)
SpecialistNodes == {"technical_analyst", "persona_panel", "platform_specialist"}

None == [kind |-> "None"]
NoUpdate == [result |-> None, errors |-> <<>>]

\* pre_coordinator_nodes of create_analysis_graph
pre_coordinator_nodes(personas, platform) ==
    {"technical_analyst"}
        \cup (IF personas THEN {"persona_panel"} ELSE {})
        \cup (IF platform THEN {"platform_specialist"} ELSE {})

EnabledNodes == pre_coordinator_nodes(include_personas, include_platform)

\* TechnicalAnalysis values: built from a model response (kind "normal"), built
\* by _fallback_analysis with the fallback note ("fallback"), or the degraded
\* TechnicalAnalysis(summary="Analysis failed: ...").
TechnicalResults(kind) ==
    {[kind |-> kind, overlap_level |-> o, development_stage |-> d] :
        o \in OverlapLevel, d \in DevelopmentStage}
TechnicalDegraded ==
    [kind |-> "degraded", overlap_level |-> "UNCLEAR",
     development_stage |-> "CONCEPT_SUMMARY"]

\* BroadAppealAnalysis values.
AppealResults == {[kind |-> "normal", broad_appeal |-> a] : a \in BroadAppeal}
AppealUnconfigured == [kind |-> "unconfigured", broad_appeal |-> "TECHNICAL_ONLY"]

\* PlatformAnalysis values.
PlatformResults ==
    {[kind |-> "normal", features_new |-> n] : n \in {<<>>, <<"vllm">>, <<"vllm", "rag">>}}
PlatformUnconfigured == [kind |-> "unconfigured", features_new |-> <<>>]
PlatformDegraded == [kind |-> "degraded", features_new |-> <<>>]

GraphInitialState ==
    [technical_analysis |-> None, broad_appeal_analysis |-> None,
     platform_analysis |-> None, final_analysis |-> None, errors |-> <<>>]

GraphInit ==
    /\ include_personas \in BOOLEAN
    /\ include_platform \in BOOLEAN
    /\ gpc = "specialists"
    /\ gnode = [n \in SpecialistNodes |->
                  IF n \in pre_coordinator_nodes(include_personas, include_platform)
                  THEN "pending" ELSE "absent"]
    /\ gupdate = [n \in SpecialistNodes |-> NoUpdate]
    /\ gstate = GraphInitialState
    /\ coordinator_runs = 0

GraphIdle ==
    /\ include_personas = FALSE /\ include_platform = FALSE
    /\ gpc = "idle"
    /\ gnode = [n \in SpecialistNodes |-> "absent"]
    /\ gupdate = [n \in SpecialistNodes |-> NoUpdate]
    /\ gstate = GraphInitialState
    /\ coordinator_runs = 0

NodeStep(n, from, to, update) ==
    /\ gpc = "specialists"
    /\ gnode[n] = from
    /\ gnode' = [gnode EXCEPT ![n] = to]
    /\ gupdate' = [gupdate EXCEPT ![n] = update]
    /\ UNCHANGED <<include_personas, include_platform, gpc, gstate, coordinator_runs>>
    /\ UNCHANGED othersGraph

\* technical_analyst_node, lines 160-185: context and prompt building, before
\* the try block. An exception here leaves the node.
TechnicalBuildPrompt ==
    \E ok \in BOOLEAN :
        NodeStep("technical_analyst", "pending",
                 IF ok THEN "prompted" ELSE "raised", NoUpdate)

\* technical_analyst_node, lines 186-204: the try block (tool loop, parsing,
\* _build_analysis); on any exception control passes to _fallback_analysis.
TechnicalToolLoop ==
    \/ \E r \in TechnicalResults("normal") :
          NodeStep("technical_analyst", "prompted", "done",
                   [result |-> r, errors |-> <<>>])
    \/ NodeStep("technical_analyst", "prompted", "fallback", NoUpdate)

\* _fallback_analysis, lines 209-232: prompt building again, outside its try.
TechnicalFallbackPrompt ==
    \E ok \in BOOLEAN :
        NodeStep("technical_analyst", "fallback",
                 IF ok THEN "fallback_prompted" ELSE "raised", NoUpdate)

\* _fallback_analysis, lines 233-248: direct completion; degraded on exception.
TechnicalFallbackCall ==
    \/ \E r \in TechnicalResults("fallback") :
          NodeStep("technical_analyst", "fallback_prompted", "done",
                   [result |-> r, errors |-> <<>>])
    \/ NodeStep("technical_analyst", "fallback_prompted", "done",
                [result |-> TechnicalDegraded,
                 errors |-> <<"Technical Analyst error">>])

\* persona_panel_node, lines 131-142: reading the issue and load_personas(),
\* not inside any try; an empty persona list returns the default analysis.
PersonaLoad ==
    \/ \E ok \in BOOLEAN :
          NodeStep("persona_panel", "pending",
                   IF ok THEN "prompted" ELSE "raised", NoUpdate)
    \/ NodeStep("persona_panel", "pending", "done",
                [result |-> AppealUnconfigured,
                 errors |-> <<"Persona Panel: No personas found">>])

\* persona_panel_node, lines 144-200: the evaluations and their aggregation.
\* An evaluation whose future raised is dropped and reported in errors.
PersonaPanel ==
    \E r \in AppealResults, failed \in BOOLEAN :
        NodeStep("persona_panel", "prompted", "done",
                 [result |-> r,
                  errors |-> IF failed THEN <<"Persona failed">> ELSE <<>>])

\* platform_specialist_node, lines 123-186: load_features(), the demonstrated
\* set and the prompt, before the try block.
PlatformPrepare ==
    \/ \E ok \in BOOLEAN :
          NodeStep("platform_specialist", "pending",
                   IF ok THEN "prompted" ELSE "raised", NoUpdate)
    \/ NodeStep("platform_specialist", "pending", "done",
                [result |-> PlatformUnconfigured,
                 errors |-> <<"Platform Specialist: No features found">>])

\* platform_specialist_node, lines 188-204: the try block and its handler.
PlatformCall ==
    \/ \E r \in PlatformResults :
          NodeStep("platform_specialist", "prompted", "done",
                   [result |-> r, errors |-> <<>>])
    \/ NodeStep("platform_specialist", "prompted", "done",
                [result |-> PlatformDegraded,
                 errors |-> <<"Platform Specialist error">>])

\* Mutant: the Coordinator triggered as soon as one specialist has finished.
CoordinatorTriggered_by_any(nodes, status) == \E n \in nodes : status[n] = "done"

\* The step START -> specialists is over when every node of it has returned;
\* only then are the nodes' writes applied and the next node triggered.
CoordinatorTriggered(nodes, status) == \A n \in nodes : status[n] = "done"

\* The `errors` channel is reduced with operator.add over the nodes' writes.
ErrorsOf(updates) ==
    updates["persona_panel"].errors \o updates["platform_specialist"].errors
        \o updates["technical_analyst"].errors

\* End of the specialists' step: writes applied, coordinator triggered.
Barrier ==
    /\ gpc = "specialists"
    /\ CoordinatorTriggered(EnabledNodes, gnode)
    /\ gstate' = [gstate EXCEPT
                    !.technical_analysis = gupdate["technical_analyst"].result,
                    !.broad_appeal_analysis = gupdate["persona_panel"].result,
                    !.platform_analysis = gupdate["platform_specialist"].result,
                    !.errors = ErrorsOf(gupdate)]
    /\ gpc' = "coordinator"
    /\ UNCHANGED <<include_personas, include_platform, gnode, gupdate, coordinator_runs>>
    /\ UNCHANGED othersGraph

\* An exception that left a node ends graph.invoke with that exception.
GraphRaises ==
    /\ gpc = "specialists"
    /\ \E n \in EnabledNodes : gnode[n] = "raised"
    /\ gpc' = "raised"
    /\ UNCHANGED <<include_personas, include_platform, gnode, gupdate, gstate,
                   coordinator_runs>>
    /\ UNCHANGED othersGraph

\* coordinator_node, lines 28-76: the merge of the available results.
coordinator_merge(state) ==
    LET technical == state.technical_analysis
        broad_appeal == state.broad_appeal_analysis
        platform == state.platform_analysis
        f1 == IF technical # None
              THEN [FinalAnalysis EXCEPT
                      !.overlap_level = technical.overlap_level,
                      !.development_stage = technical.development_stage]
              ELSE FinalAnalysis
        f2 == IF broad_appeal # None
              THEN [f1 EXCEPT !.broad_appeal = broad_appeal.broad_appeal] ELSE f1
        f3 == IF platform # None
              THEN [f2 EXCEPT !.features_new = platform.features_new] ELSE f2
    IN  [f3 EXCEPT !.priority_score = _calculate_priority_score(f3)]

CoordinatorNode ==
    /\ gpc = "coordinator"
    /\ coordinator_runs' = coordinator_runs + 1
    /\ gstate' = [gstate EXCEPT !.final_analysis = coordinator_merge(gstate)]
    /\ gpc' = "END"
    /\ UNCHANGED <<include_personas, include_platform, gnode, gupdate>>
    /\ UNCHANGED othersGraph


(***************************************************************************)
(* Report-level orchestrator (agents/report_graph.py) and the on-disk      *)
(* cache (analysis_store.py)                                               *)
(***************************************************************************)
MaxBatch == 2
MaxWorkers == 2
MaxReportBatch == 2

IssueNumbers == {3, 7}

\* An issue dict either has a "number" key or lacks it.
NumberedIssues == {[number |-> n] : n \in IssueNumbers}
Issues == NumberedIssues \cup {[title |-> "Untitled"]}

\* issue.get("number", default)
get_number(issue, default) ==
    IF "number" \in DOMAIN issue THEN issue.number ELSE default

\* The cache key of a work unit: issue.get("number", 0).
StoreKeys == IssueNumbers \cup {0}
EntryKinds == {"normal", "degraded"}
EmptyStore == [k \in StoreKeys |-> "none"]

\* No file on disk: load_analysis_store returns {}.
NoFile == [valid |-> TRUE, entries |-> EmptyStore]
\* The file after open(..., "w") and before json.dump has completed.
Truncated == [valid |-> FALSE, entries |-> EmptyStore]

\* load_analysis_store: json.load raises on a file that is not valid JSON.
LoadRaises(file) == ~file.valid

\* Mutant: the lock does not exclude anybody.
LockFree_ignored(lock) == TRUE

\* `with _store_lock:` can be entered when no thread holds the lock.
LockFree(lock) == lock = {}

\* Mutant: the cache is consulted whatever the force flag says.
ConsultCache_always(force) == TRUE

\* `if not force_reanalyze:` / `if not force:`
ConsultCache(force) == ~force

\* issue_order = {issue.get("number", i): i for i, issue in enumerate(issues)}
\* (Python indices are 0-based; positions here are index + 1.)
IssueOrderOf(iss) ==
    LET key(p) == get_number(iss[p], p - 1)
        keys == {key(p) : p \in 1..Len(iss)}
    IN  [k \in keys |->
            CHOOSE p \in 1..Len(iss) :
                /\ key(p) = k
                /\ \A q \in 1..Len(iss) : key(q) = k => q <= p]

IssueResult(number, analysis, source) ==
    [issue_number |-> number, analysis |-> analysis, source |-> source]

Units == 1..Len(issues)
KeyOf(i) == get_number(issues[i], 0)
PoolRunning == mpc \in {"collect", "aborting"}
Running(i) == upc[i] \notin {"queued", "done"}

\* The gap context: the empty dict {}, or the dict of the three gap lists the
\* Portfolio Analyst found, each entry given by the category names it contains.
NoGaps == [kind |-> "empty dict"]
SomeGaps ==
    [industries |-> <<{"healthcare"}, {"financial services"}, {"healthcare"}>>,
     use_cases |-> <<{"fraud detection"}>>,
     capabilities |-> <<{"speech"}>>]

\* The `gaps` that go with a PortfolioAnalysis: the degraded one has {}.
GapsOf(kind) == IF kind = "normal" THEN SomeGaps ELSE NoGaps

\* A variant of line 260 that runs phase 1 even when it is to be skipped.
FirstStep_never_skips(skip) == "portfolio"

\* Line 260: `if not skip_portfolio:`
FirstStep(skip) == IF skip THEN "dispatch" ELSE "portfolio"

\* No call of generate_report_analysis has been made and no thread exists.
BatchLocalsIdle ==
    /\ store_lock = {}
    /\ mpc = "idle"
    /\ issues = <<>>
    /\ force_reanalyze = FALSE
    /\ skip_portfolio = FALSE
    /\ max_workers = 1
    /\ portfolio = None
    /\ issue_order = <<>>
    /\ results = <<>>
    /\ collected = {}
    /\ upc = <<>>
    /\ ucached = <<>>
    /\ uloaded = <<>>
    /\ uresult = <<>>
    /\ portfolio_gaps = NoGaps
    /\ ugaps = <<>>
    /\ analyst_runs = 0

BatchIdle ==
    /\ analysis_file = NoFile
    /\ portfolio_file = "none"
    /\ BatchLocalsIdle

BatchInit == BatchIdle

\* What cache/portfolio.json can hold when a command starts: nothing, a stored
\* analysis, or the remains of an interrupted write.
PortfolioFiles == {"none", "corrupt"} \cup EntryKinds

\* The start of a report command, whatever earlier commands left in
\* cache/portfolio.json.
PhaseInit ==
    /\ analysis_file = NoFile
    /\ portfolio_file \in PortfolioFiles
    /\ BatchLocalsIdle

\* ---- main thread: generate_report_analysis ------------------------------

\* A call of generate_report_analysis(issues, force_reanalyze, skip_portfolio,
\* max_workers) by a command of main.py; the files persist between calls.
InvokeWith(lists, skips, widths) ==
    /\ mpc \in {"idle", "returned", "raised"}
    /\ \E iss \in lists, force \in BOOLEAN, skip \in skips, width \in widths :
          /\ issues' = iss
          /\ force_reanalyze' = force
          /\ skip_portfolio' = skip
          /\ max_workers' = width
          /\ mpc' = FirstStep(skip)
    /\ portfolio' = None
    /\ portfolio_gaps' = NoGaps
    /\ ugaps' = <<>>
    /\ analyst_runs' = 0
    /\ issue_order' = <<>>
    /\ results' = <<>>
    /\ collected' = {}
    /\ upc' = <<>> /\ ucached' = <<>> /\ uloaded' = <<>> /\ uresult' = <<>>
    /\ UNCHANGED <<analysis_file, portfolio_file, store_lock>>
    /\ UNCHANGED othersBatch

\* Batches of numbered issues analysed with skip_portfolio set: phase 2 only,
\* on a pool of any width.
Invoke == InvokeWith(SeqsUpTo(NumberedIssues, MaxBatch), {TRUE}, 1..MaxWorkers)

\* Reports of at most MaxReportBatch issues, numbered or not, with or without
\* phase 1, on a pool of one worker.
InvokeReport == InvokeWith(SeqsUpTo(Issues, MaxReportBatch), BOOLEAN, {1})

\* One report of at most MaxPhaseBatch numbered issues, with or without phase 1,
\* on a pool of one worker.
MaxPhaseBatch == 2
InvokePhase ==
    /\ mpc = "idle"
    /\ InvokeWith(SeqsUpTo(NumberedIssues, MaxPhaseBatch), BOOLEAN, {1})

\* Phase 1, _run_portfolio_analysis(force), run on the main thread before the
\* pool exists.  get_cached_portfolio is called outside the try block; the
\* graph and cache_portfolio are inside it.
PortfolioPhase ==
    /\ mpc = "portfolio"
    /\ \/ \* the cache is consulted and json.load raises
          /\ ConsultCache(force_reanalyze) /\ portfolio_file = "corrupt"
          /\ mpc' = "raised"
          /\ UNCHANGED <<portfolio, portfolio_file, portfolio_gaps, analyst_runs>>
       \/ \* cache hit
          /\ ConsultCache(force_reanalyze)
          /\ portfolio_file \in EntryKinds
          /\ portfolio' = [kind |-> portfolio_file, source |-> "cached"]
          /\ portfolio_gaps' = GapsOf(portfolio_file)
          /\ mpc' = "dispatch"
          /\ UNCHANGED <<portfolio_file, analyst_runs>>
       \/ \* the portfolio graph is run
          /\ ~ConsultCache(force_reanalyze) \/ portfolio_file = "none"
          /\ mpc' = "dispatch"
          /\ analyst_runs' = analyst_runs + 1
          /\ \/ \* graph.invoke raised
                /\ portfolio' = None
                /\ portfolio_gaps' = NoGaps
                /\ UNCHANGED portfolio_file
             \/ \E kind \in EntryKinds :
                   \/ \* cache_portfolio succeeded
                      /\ portfolio_file' = kind
                      /\ portfolio' = [kind |-> kind, source |-> "analyzed"]
                      /\ portfolio_gaps' = GapsOf(kind)
                   \/ \* open(..., "w") raised
                      /\ portfolio' = None
                      /\ portfolio_gaps' = NoGaps
                      /\ UNCHANGED portfolio_file
                   \/ \* json.dump raised after the file was truncated
                      /\ portfolio_file' = "corrupt"
                      /\ portfolio' = None
                      /\ portfolio_gaps' = NoGaps
    /\ UNCHANGED ugaps
    /\ UNCHANGED <<analysis_file, store_lock, issues, force_reanalyze,
                   skip_portfolio, max_workers, issue_order, results, collected,
                   upc, ucached, uloaded, uresult>>
    /\ UNCHANGED othersBatch

\* Lines 267-286: the index mapping, the result list and the submissions.
Dispatch ==
    /\ mpc = "dispatch"
    /\ issue_order' = IssueOrderOf(issues)
    /\ results' = [i \in 1..Len(issues) |-> None]
    /\ upc' = [i \in 1..Len(issues) |-> "queued"]
    /\ ucached' = [i \in 1..Len(issues) |-> "unread"]
    /\ uloaded' = [i \in 1..Len(issues) |-> EmptyStore]
    /\ uresult' = [i \in 1..Len(issues) |-> None]
    /\ ugaps' = [i \in 1..Len(issues) |-> portfolio_gaps]
    /\ collected' = {}
    /\ mpc' = "collect"
    /\ UNCHANGED <<analysis_file, portfolio_file, store_lock, issues,
                   force_reanalyze, skip_portfolio, max_workers, portfolio,
                   portfolio_gaps, analyst_runs>>
    /\ UNCHANGED othersBatch

\* Lines 288-291: one iteration of `for future in as_completed(futures)`.
Collect ==
    /\ mpc = "collect"
    /\ \E i \in Units \ collected :
          /\ upc[i] = "done"
          /\ collected' = collected \cup {i}
          /\ IF KeyOf(i) \notin DOMAIN issue_order
                THEN \* KeyError in issue_order[...]
                     mpc' = "aborting" /\ UNCHANGED results
             ELSE IF uresult[i].source = "raised"
                THEN \* future.result() re-raises the unit's exception
                     mpc' = "aborting" /\ UNCHANGED results
             ELSE /\ results' = [results EXCEPT ![issue_order[KeyOf(i)]] = uresult[i]]
                  /\ UNCHANGED mpc
    /\ UNCHANGED <<portfolio_gaps, ugaps, analyst_runs>>
    /\ UNCHANGED <<analysis_file, portfolio_file, store_lock, issues,
                   force_reanalyze, skip_portfolio, max_workers, portfolio,
                   issue_order, upc, ucached, uloaded, uresult>>
    /\ UNCHANGED othersBatch

\* Leaving `with ThreadPoolExecutor(...)`: shutdown(wait=True), then either
\* `return portfolio, results` or the pending exception.
PoolExit ==
    /\ PoolRunning
    /\ \A i \in Units : upc[i] = "done"
    /\ \/ mpc = "collect" /\ collected = Units /\ mpc' = "returned"
       \/ mpc = "aborting" /\ mpc' = "raised"
    /\ UNCHANGED <<portfolio_gaps, ugaps, analyst_runs>>
    /\ UNCHANGED <<analysis_file, portfolio_file, store_lock, issues,
                   force_reanalyze, skip_portfolio, max_workers, portfolio,
                   issue_order, results, collected, upc, ucached, uloaded,
                   uresult>>
    /\ UNCHANGED othersBatch

\* clear_analysis_store, called by cmd_clear_cache and cmd_refresh.
clear_analysis_store ==
    /\ mpc \in {"returned", "raised"}
    /\ analysis_file' = NoFile
    /\ portfolio_file' = "none"
    /\ mpc' = "idle"
    /\ issues' = <<>> /\ force_reanalyze' = FALSE /\ skip_portfolio' = FALSE
    /\ max_workers' = 1 /\ portfolio' = None /\ issue_order' = <<>>
    /\ portfolio_gaps' = NoGaps /\ ugaps' = <<>> /\ analyst_runs' = 0
    /\ results' = <<>> /\ collected' = {}
    /\ upc' = <<>> /\ ucached' = <<>> /\ uloaded' = <<>> /\ uresult' = <<>>
    /\ UNCHANGED store_lock
    /\ UNCHANGED othersBatch

\* ---- worker threads: _analyze_single_issue ------------------------------
UnitFrame == <<portfolio_file, mpc, issues, force_reanalyze, skip_portfolio,
               max_workers, portfolio, issue_order, results, collected,
               portfolio_gaps, ugaps, analyst_runs>>

\* The unit returns `res` (or its future holds the exception).
Finish(i, res) ==
    /\ upc' = [upc EXCEPT ![i] = "done"]
    /\ uresult' = [uresult EXCEPT ![i] = res]
    /\ uloaded' = [uloaded EXCEPT ![i] = EmptyStore]

Placeholder(i) == IssueResult(KeyOf(i), "default", "placeholder")
Raised(i) == IssueResult(KeyOf(i), "exception", "raised")

\* A free worker thread takes the next submitted unit (FIFO work queue).
UnitBegin ==
    /\ PoolRunning
    /\ \E i \in Units :
          /\ upc[i] = "queued"
          /\ \A j \in 1..(i - 1) : upc[j] # "queued"
          /\ Cardinality({j \in Units : Running(j)}) < max_workers
          /\ upc' = [upc EXCEPT ![i] =
                        IF ConsultCache(force_reanalyze) THEN "lookup" ELSE "start"]
    /\ UNCHANGED <<analysis_file, store_lock, ucached, uloaded, uresult>>
    /\ UNCHANGED UnitFrame
    /\ UNCHANGED othersBatch

\* Lines 165-176: get_cached_analysis (under the lock) and the cached return;
\* none of it is inside the try block.
Lookup ==
    /\ PoolRunning
    /\ \E i \in Units, callback_ok \in BOOLEAN :
          /\ upc[i] = "lookup"
          /\ LockFree(store_lock)
          /\ IF LoadRaises(analysis_file)
                THEN Finish(i, Raised(i)) /\ UNCHANGED ucached
             ELSE LET cached == analysis_file.entries[KeyOf(i)] IN
                  /\ ucached' = [ucached EXCEPT ![i] = cached]
                  /\ IF cached = "none"
                        THEN /\ upc' = [upc EXCEPT ![i] = "start"]
                             /\ UNCHANGED <<uresult, uloaded>>
                     ELSE IF callback_ok
                        THEN Finish(i, IssueResult(KeyOf(i), cached, "cached"))
                     ELSE \* on_issue_cached raised
                          Finish(i, Raised(i))
    /\ UNCHANGED <<analysis_file, store_lock>>
    /\ UNCHANGED UnitFrame
    /\ UNCHANGED othersBatch

\* Lines 178-189: on_issue_start (outside the try), then analyze_issue (first
\* statement of the try).  The graph's result is normal or carries the
\* degraded output of a specialist.
AnalyzeIssue ==
    /\ PoolRunning
    /\ \E i \in Units :
          /\ upc[i] = "start"
          /\ \/ \* on_issue_start raised
                Finish(i, Raised(i))
             \/ \* analyze_issue raised: except branch, lines 208-215
                Finish(i, Placeholder(i))
             \/ \E kind \in EntryKinds :
                   /\ upc' = [upc EXCEPT ![i] = "cache"]
                   /\ uresult' = [uresult EXCEPT ![i] =
                                     IssueResult(KeyOf(i), kind, "running")]
                   /\ UNCHANGED uloaded
    /\ UNCHANGED <<analysis_file, store_lock, ucached>>
    /\ UNCHANGED UnitFrame
    /\ UNCHANGED othersBatch

\* cache_analysis, lines 49-50: enter the lock, load the store.
CacheLoad ==
    /\ PoolRunning
    /\ \E i \in Units :
          /\ upc[i] = "cache"
          /\ LockFree(store_lock)
          /\ IF LoadRaises(analysis_file)
                THEN /\ Finish(i, Placeholder(i))
                     /\ UNCHANGED store_lock
                ELSE /\ store_lock' = store_lock \cup {i}
                     /\ upc' = [upc EXCEPT ![i] = "loaded"]
                     /\ uloaded' = [uloaded EXCEPT ![i] = analysis_file.entries]
                     /\ UNCHANGED uresult
    /\ UNCHANGED <<analysis_file, ucached>>
    /\ UNCHANGED UnitFrame
    /\ UNCHANGED othersBatch

\* cache_analysis, lines 51-57 and save_analysis_store line 36: the entry is
\* set in the loaded dict and the file is opened for writing (truncated).
CacheOpen ==
    /\ PoolRunning
    /\ \E i \in Units, ok \in BOOLEAN :
          /\ upc[i] = "loaded"
          /\ IF ok
                THEN /\ analysis_file' = Truncated
                     /\ upc' = [upc EXCEPT ![i] = "writing"]
                     /\ uloaded' = [uloaded EXCEPT ![i][KeyOf(i)] = uresult[i].analysis]
                     /\ UNCHANGED <<store_lock, uresult>>
                ELSE \* open raised: the lock is released, except branch
                     /\ Finish(i, Placeholder(i))
                     /\ store_lock' = store_lock \ {i}
                     /\ UNCHANGED analysis_file
    /\ UNCHANGED ucached
    /\ UNCHANGED UnitFrame
    /\ UNCHANGED othersBatch

\* save_analysis_store line 37 (json.dump), leaving the lock, then
\* on_issue_complete and the return, lines 197-206.
CacheDump ==
    /\ PoolRunning
    /\ \E i \in Units, ok \in BOOLEAN, callback_ok \in BOOLEAN :
          /\ upc[i] = "writing"
          /\ store_lock' = store_lock \ {i}
          /\ IF ok
                THEN /\ analysis_file' = [valid |-> TRUE, entries |-> uloaded[i]]
                     /\ IF callback_ok
                           THEN Finish(i, [uresult[i] EXCEPT !.source = "analyzed"])
                           ELSE Finish(i, Placeholder(i))
                ELSE \* json.dump raised: the file stays truncated
                     /\ analysis_file' = Truncated
                     /\ Finish(i, Placeholder(i))
    /\ UNCHANGED ucached
    /\ UNCHANGED UnitFrame
    /\ UNCHANGED othersBatch

(***************************************************************************)
(* coordinator_node in full (agents/coordinator.py) with the guardrail     *)
(* check (llm/guardrails.py)                                               *)
(***************************************************************************)
PlatformFit == {"EXCELLENT", "GOOD", "MODERATE", "POOR"}

\* The dataclass defaults of agents/state.py.
TechnicalAnalysis ==
    [overlap_level |-> "UNCLEAR", development_stage |-> "CONCEPT_SUMMARY",
     use_case_overlap |-> <<>>, similar_stack |-> <<>>, adjacent_gaps |-> <<>>,
     clarification_needed |-> "", summary |-> ""]
BroadAppealAnalysis ==
    [broad_appeal |-> "TECHNICAL_ONLY", personas_who_understand |-> <<>>,
     personas_who_dont |-> <<>>, evaluations |-> <<>>, summary |-> ""]
PlatformAnalysis ==
    [features_identified |-> <<>>, features_new |-> <<>>, features_reused |-> <<>>,
     platform_fit |-> "MODERATE", notes |-> ""]
FinalAnalysisDefaults ==
    [overlap_level |-> "UNCLEAR", development_stage |-> "CONCEPT_SUMMARY",
     use_case_overlap |-> <<>>, similar_stack |-> <<>>, adjacent_gaps |-> <<>>,
     clarification_needed |-> "", technical_summary |-> "",
     broad_appeal |-> "TECHNICAL_ONLY", personas_who_understand |-> <<>>,
     personas_who_dont |-> <<>>, persona_evaluations |-> <<>>,
     appeal_summary |-> "",
     features_identified |-> <<>>, features_new |-> <<>>, features_reused |-> <<>>,
     platform_fit |-> "MODERATE",
     overall_recommendation |-> <<>>, priority_score |-> 5,
     fills_portfolio_gap |-> <<>>, raw_analysis |-> <<>>]

\* The degraded results of technical_analyst_node (technical.py:244-248) and
\* platform_specialist_node (platform.py:200-204).
TechnicalFailedResult == [TechnicalAnalysis EXCEPT !.summary = "Analysis failed: timeout"]
PlatformFailedResult == [PlatformAnalysis EXCEPT !.notes = "Analysis failed: timeout"]

\* Results the Technical Analyst can hand to the Coordinator: a filled one, one
\* with empty texts and lists, and the degraded one of _fallback_analysis.
TechnicalInputs ==
    {[TechnicalAnalysis EXCEPT
        !.overlap_level = o, !.development_stage = d,
        !.use_case_overlap = IF filled THEN <<"rag-chatbot">> ELSE <<>>,
        !.similar_stack = IF filled THEN <<"llm-on-vllm">> ELSE <<>>,
        !.adjacent_gaps = IF filled THEN <<"speech">> ELSE <<>>,
        !.clarification_needed = IF filled THEN "Which data sources?" ELSE "",
        !.summary = IF filled THEN "Fraud scoring demo" ELSE ""] :
        o \in OverlapLevel, d \in DevelopmentStage, filled \in BOOLEAN}
    \cup {TechnicalFailedResult}

PersonaEvaluationsExample ==
    <<[persona_name |-> "Data Scientist", relevance |-> "HIGH",
       explanation |-> "fits", persona_id |-> "ds"]>>

BroadAppealInputs ==
    {[BroadAppealAnalysis EXCEPT
        !.broad_appeal = a,
        !.personas_who_understand = IF filled THEN <<"Data Scientist">> ELSE <<>>,
        !.personas_who_dont = IF filled THEN <<"CFO">> ELSE <<>>,
        !.evaluations = IF filled THEN PersonaEvaluationsExample ELSE <<>>,
        !.summary = IF filled THEN "1/2 personas" ELSE ""] :
        a \in BroadAppeal, filled \in BOOLEAN}

PlatformInputs ==
    {[PlatformAnalysis EXCEPT
        !.features_identified = n, !.features_new = n,
        !.features_reused = IF n = <<>> THEN <<"pipelines">> ELSE <<>>,
        !.platform_fit = f] :
        n \in {<<>>, <<"vllm", "rag">>}, f \in PlatformFit}
    \cup {PlatformFailedResult}

\* Keywords of a text, out of the keyword dictionaries of
\* _detect_portfolio_gaps_filled (`kw in search_text`).
WordsOf(text) ==
    CASE text = "Fraud scoring demo" -> {"fraud"}
      [] text = "Patient triage assistant" -> {"patient"}
      [] text = "Speech demo" -> {"speech"}
      [] OTHER -> {}

\* The dictionaries, in their insertion order: <<category, keywords>>.
industry_keywords ==
    <<[name |-> "healthcare", keywords |-> {"healthcare", "patient"}],
      [name |-> "financial services", keywords |-> {"financial", "fraud"}]>>
use_case_keywords ==
    <<[name |-> "fraud detection", keywords |-> {"fraud", "suspicious"}]>>
capability_keywords ==
    <<[name |-> "speech", keywords |-> {"speech", "audio"}]>>

\* f"{prefix}: {name.title()}" for the category names above.
GapLabel(prefix, name) ==
    CASE name = "healthcare" -> "Industry: Healthcare"
      [] name = "financial services" -> "Industry: Financial Services"
      [] name = "fraud detection" -> "Use Case: Fraud Detection"
      [] name = "speech" -> "Capability: Speech"
      [] OTHER -> prefix

\* A variant that reports a named category whether or not a keyword occurs.
RECURSIVE FilledBy_without_keywords(_, _, _, _)
FilledBy_without_keywords(entries, dict, prefix, search_words) ==
    IF entries = <<>> THEN <<>>
    ELSE LET entry == Head(entries)
             hits == {k \in 1..Len(dict) : dict[k].name \in entry}
             first == CHOOSE k \in hits : \A j \in hits : k <= j
         IN  (IF hits = {} THEN <<>>
              ELSE <<GapLabel(prefix, dict[first].name)>>)
             \o FilledBy_without_keywords(Tail(entries), dict, prefix, search_words)

\* One pass of `for entry in gap list: for name, keywords in dict: ...`.  A gap
\* list entry is given by the category names its lowercase text contains.
RECURSIVE FilledBy(_, _, _, _)
FilledBy(entries, dict, prefix, search_words) ==
    IF entries = <<>> THEN <<>>
    ELSE LET entry == Head(entries)
             hits == {k \in 1..Len(dict) :
                        dict[k].name \in entry /\ dict[k].keywords \cap search_words # {}}
             first == CHOOSE k \in hits : \A j \in hits : k <= j
         IN  (IF hits = {} THEN <<>>
              ELSE <<GapLabel(prefix, dict[first].name)>>)
             \o FilledBy(Tail(entries), dict, prefix, search_words)

\* list(dict.fromkeys(xs)): duplicates removed, first occurrence kept.
RECURSIVE Dedup(_)
Dedup(xs) ==
    IF xs = <<>> THEN <<>>
    ELSE LET init == Dedup(SubSeq(xs, 1, Len(xs) - 1))
             last == xs[Len(xs)]
         IN  IF \E i \in 1..Len(init) : init[i] = last THEN init
             ELSE Append(init, last)

_detect_portfolio_gaps_filled(issue, analysis, gaps) ==
    IF gaps = NoGaps THEN <<>>
    ELSE LET search_words == WordsOf(issue.title) \cup WordsOf(issue.body)
                                \cup WordsOf(analysis.technical_summary)
         IN  Dedup(FilledBy(gaps.industries, industry_keywords,
                            "Industry", search_words)
                   \o FilledBy(gaps.use_cases, use_case_keywords,
                               "Use Case", search_words)
                   \o FilledBy(gaps.capabilities, capability_keywords,
                               "Capability", search_words))

\* _generate_recommendation: the parts that " ".join concatenates.
_generate_recommendation(analysis) ==
    <<IF analysis.overlap_level = "UNIQUE" THEN <<"Unique use case">>
      ELSE IF analysis.overlap_level = "POSSIBLE_OVERLAP"
           THEN <<"Possible overlap with", Len(analysis.use_case_overlap)>>
      ELSE <<"Use case needs clarification">>,
      IF analysis.development_stage = "HAS_CODE" THEN <<"Contributor has existing code">>
      ELSE IF analysis.development_stage = "DETAILED_PLAN" THEN <<"Detailed implementation plan">>
      ELSE IF analysis.development_stage = "DETAILED_CONCEPT" THEN <<"Well-described concept">>
      ELSE <<"Brief concept summary">>>>
    \o (IF analysis.appeal_summary # "" THEN <<<<"Appeal:", analysis.broad_appeal>>>> ELSE <<>>)
    \o (IF analysis.features_new # <<>>
        THEN <<<<"Would demonstrate", Len(analysis.features_new)>>>> ELSE <<>>)
    \o (IF analysis.fills_portfolio_gap # <<>>
        THEN <<<<"Fills catalog gap:",
                 SubSeq(analysis.fills_portfolio_gap, 1,
                        Min(2, Len(analysis.fills_portfolio_gap)))>>>>
        ELSE <<>>)

\* Lines 38-45: `if technical:` copies the Technical Analyst's fields.
MergeTechnical(f, technical) ==
    IF technical = None THEN f
    ELSE [f EXCEPT !.overlap_level = technical.overlap_level,
                   !.development_stage = technical.development_stage,
                   !.use_case_overlap = technical.use_case_overlap,
                   !.similar_stack = technical.similar_stack,
                   !.adjacent_gaps = technical.adjacent_gaps,
                   !.clarification_needed = technical.clarification_needed,
                   !.technical_summary = technical.summary]

\* The dicts built at lines 52-59 keep name, relevance and explanation.
EvaluationDict(e) ==
    [name |-> e.persona_name, relevance |-> e.relevance, explanation |-> e.explanation]

\* A variant in which the Persona Panel's summary also overwrites the
\* Technical Analyst's.
MergeBroadAppeal_overwrites_summary(f, broad_appeal) ==
    IF broad_appeal = None THEN f
    ELSE [f EXCEPT !.broad_appeal = broad_appeal.broad_appeal,
                   !.personas_who_understand = broad_appeal.personas_who_understand,
                   !.personas_who_dont = broad_appeal.personas_who_dont,
                   !.persona_evaluations =
                       [i \in 1..Len(broad_appeal.evaluations) |->
                           EvaluationDict(broad_appeal.evaluations[i])],
                   !.appeal_summary = broad_appeal.summary,
                   !.technical_summary = broad_appeal.summary]

\* Lines 48-60: `if broad_appeal:` copies the Persona Panel's fields.
MergeBroadAppeal(f, broad_appeal) ==
    IF broad_appeal = None THEN f
    ELSE [f EXCEPT !.broad_appeal = broad_appeal.broad_appeal,
                   !.personas_who_understand = broad_appeal.personas_who_understand,
                   !.personas_who_dont = broad_appeal.personas_who_dont,
                   !.persona_evaluations =
                       [i \in 1..Len(broad_appeal.evaluations) |->
                           EvaluationDict(broad_appeal.evaluations[i])],
                   !.appeal_summary = broad_appeal.summary]

\* Lines 63-67: `if platform:` copies the Platform Specialist's fields.
MergePlatform(f, platform) ==
    IF platform = None THEN f
    ELSE [f EXCEPT !.features_identified = platform.features_identified,
                   !.features_new = platform.features_new,
                   !.features_reused = platform.features_reused,
                   !.platform_fit = platform.platform_fit]

\* Lines 79-100: the dict that json.dumps serialises.
RawAnalysis(f, errors) ==
    [technical |-> [overlap_level |-> f.overlap_level,
                    development_stage |-> f.development_stage,
                    summary |-> f.technical_summary],
     broad_appeal |-> [level |-> f.broad_appeal,
                       personas_understand |-> f.personas_who_understand,
                       personas_dont |-> f.personas_who_dont],
     platform |-> [fit |-> f.platform_fit, features_new |-> f.features_new,
                   features_reused |-> f.features_reused],
     coordinator |-> [priority_score |-> f.priority_score,
                      recommendation |-> f.overall_recommendation],
     errors |-> errors]

\* coordinator_node, lines 28-101: everything before the guardrail check.
\* raw_analysis is the sequence of text blocks of the string.
coordinator_build(state) ==
    LET f1 == MergePlatform(
                  MergeBroadAppeal(
                      MergeTechnical(FinalAnalysisDefaults, state.technical_analysis),
                      state.broad_appeal_analysis),
                  state.platform_analysis)
        f2 == [f1 EXCEPT !.fills_portfolio_gap =
                   _detect_portfolio_gaps_filled(state.issue, f1, state.portfolio_gaps)]
        f3 == [f2 EXCEPT !.overall_recommendation = _generate_recommendation(f2)]
        f4 == [f3 EXCEPT !.priority_score = _calculate_priority_score(f3)]
    IN  [f4 EXCEPT !.raw_analysis = <<RawAnalysis(f4, state.errors)>>]

\* ---- llm/guardrails.py
\* What client.chat.completions.create can give: it raises, or the message
\* content is None, or a text, given by its parts between "|" characters.
Raises == [kind |-> "raises"]
Content(parts) == [kind |-> "content", parts |-> parts]
GuardrailResponses ==
    {Raises, None, Content(<<"safe">>), Content(<<"Safe ">>), Content(<<"safe", "">>),
     Content(<<"unprofessional", " Tone is too casual">>), Content(<<"hallucination">>)}

\* str.strip().lower() and str.strip() on the texts above.
StripLower(text) ==
    CASE text = "Safe " -> "safe"
      [] OTHER -> text
Strip(text) ==
    CASE text = " Tone is too casual" -> "Tone is too casual"
      [] text = " " -> ""
      [] OTHER -> text

\* A reason is a text or None.
Reason(text) == [text |-> text]

GuardrailResult(is_safe, category, reason) ==
    [is_safe |-> is_safe, category |-> category, reason |-> reason]

\* A variant that fails closed when the validation call errors.
check_output_safety_fail_closed(response) ==
    IF response = Raises
    THEN GuardrailResult(FALSE, "error", Reason("Guardrail check failed"))
    ELSE LET result == IF response = None THEN <<"">> ELSE response.parts
             category == StripLower(result[1])
             reason == IF Len(result) > 1 /\ Strip(result[2]) # ""
                       THEN Reason(Strip(result[2])) ELSE None
         IN  GuardrailResult(category = "safe", category, reason)

\* check_output_safety, lines 49-81, for one outcome of the create call.
check_output_safety(response) ==
    IF response = Raises
    THEN GuardrailResult(TRUE, "error", Reason("Guardrail check failed"))
    ELSE LET result == IF response = None THEN <<"">> ELSE response.parts
             category == StripLower(result[1])
             reason == IF Len(result) > 1 /\ Strip(result[2]) # ""
                       THEN Reason(Strip(result[2])) ELSE None
         IN  GuardrailResult(category = "safe", category, reason)

\* f"[Guardrail warning: {guardrail_result.reason}]\n\n"
Warning(reason) == [warning |-> IF reason = None THEN "None" ELSE reason.text]

\* ---- the states coordinator_node is called with
IssueTexts ==
    {[title |-> "Patient triage assistant", body |-> ""],
     [title |-> "Scoring service", body |-> "Fraud scoring demo"]}

ErrorsFor(technical) ==
    IF technical = TechnicalFailedResult
    THEN <<"Technical Analyst error: timeout">> ELSE <<>>

MergeStates ==
    {[issue |-> i, technical_analysis |-> t, broad_appeal_analysis |-> b,
      platform_analysis |-> p, portfolio_gaps |-> g, errors |-> ErrorsFor(t)] :
        i \in IssueTexts, t \in TechnicalInputs \cup {None},
        b \in BroadAppealInputs \cup {None}, p \in PlatformInputs \cup {None},
        g \in {NoGaps, SomeGaps}}

MergeInit ==
    /\ cstate \in MergeStates
    /\ cpos = "start"
    /\ cfinal = FinalAnalysisDefaults
    /\ guardrail_result = None
    /\ cprev = None

MergeIdle ==
    /\ cstate = None
    /\ cpos = "idle"
    /\ cfinal = FinalAnalysisDefaults
    /\ guardrail_result = None
    /\ cprev = None

\* coordinator_node, lines 28-101.
CoordMerge ==
    /\ cpos = "start"
    /\ cfinal' = coordinator_build(cstate)
    /\ cpos' = "built"
    /\ UNCHANGED <<cstate, guardrail_result, cprev>>
    /\ UNCHANGED othersMerge

\* Lines 104 and 111: an empty technical_summary skips the check.
CoordReturn ==
    /\ cpos = "built"
    /\ cfinal.technical_summary = ""
    /\ cpos' = "returned"
    /\ UNCHANGED <<cstate, cfinal, guardrail_result, cprev>>
    /\ UNCHANGED othersMerge

\* Lines 104-111: the guardrail check on the technical summary.
CoordGuardrail ==
    /\ cpos = "built"
    /\ cfinal.technical_summary # ""
    /\ \E response \in GuardrailResponses :
          LET r == check_output_safety(response)
          IN  /\ guardrail_result' = r
              /\ cfinal' = IF ~r.is_safe
                           THEN [cfinal EXCEPT !.raw_analysis =
                                    <<Warning(r.reason)>> \o cfinal.raw_analysis]
                           ELSE cfinal
    /\ cpos' = "returned"
    /\ UNCHANGED <<cstate, cprev>>
    /\ UNCHANGED othersMerge

\* coordinator_node is called again on the same state.
CoordRerun ==
    /\ cpos = "returned"
    /\ cprev' = cfinal
    /\ cfinal' = FinalAnalysisDefaults
    /\ guardrail_result' = None
    /\ cpos' = "start"
    /\ UNCHANGED cstate
    /\ UNCHANGED othersMerge

(***************************************************************************)
(* Single calls of pure functions                                          *)
(***************************************************************************)
Pending == [kind |-> "pending"]
Returns(value) == [kind |-> "returns", value |-> value]
RaisesError(exc) == [kind |-> "raises", exc |-> exc]

CallIdle == fcall = "none" /\ fargs = None /\ fret = Pending

(***************************************************************************)
(* llm/parsing.py.  A text is the sequence of its tokens: "{" "}" "[" "]", *)
(* "k" for a key with its colon, " " for whitespace, "w" for a word of     *)
(* prose and "f" for a ``` fence (with or without the json tag).           *)
(***************************************************************************)
MaxContentLen == 5
Tokens == {"{", "}", "[", "]", "k", " ", "w", "f"}
Contents == SeqsUpTo(Tokens, MaxContentLen)

JSONDecodeError == [ok |-> FALSE]
Dict(items) == [type |-> "dict", items |-> items]
List(items) == [type |-> "list", items |-> items]

\* The first position at or after i that holds no whitespace.
RECURSIVE SkipWs(_, _)
SkipWs(toks, i) ==
    IF i <= Len(toks) /\ toks[i] = " " THEN SkipWs(toks, i + 1) ELSE i

\* The JSON value starting at position i: objects with no or one member, arrays
\* with no or one element.  Gives the value and the position after it.
RECURSIVE ParseValue(_, _)
ParseValue(toks, i0) ==
    LET i == SkipWs(toks, i0)
        At(j) == IF j <= Len(toks) THEN toks[j] ELSE "end"
    IN  IF At(i) = "{"
        THEN LET j == SkipWs(toks, i + 1)
             IN  IF At(j) = "}" THEN [ok |-> TRUE, val |-> Dict(<<>>), next |-> j + 1]
                 ELSE IF At(j) = "k"
                 THEN LET v == ParseValue(toks, j + 1)
                          e == IF v.ok THEN SkipWs(toks, v.next) ELSE 0
                      IN  IF v.ok /\ At(e) = "}"
                          THEN [ok |-> TRUE, val |-> Dict(<<v.val>>), next |-> e + 1]
                          ELSE JSONDecodeError
                 ELSE JSONDecodeError
        ELSE IF At(i) = "["
        THEN LET j == SkipWs(toks, i + 1)
             IN  IF At(j) = "]" THEN [ok |-> TRUE, val |-> List(<<>>), next |-> j + 1]
                 ELSE LET v == ParseValue(toks, j)
                          e == IF v.ok THEN SkipWs(toks, v.next) ELSE 0
                      IN  IF v.ok /\ At(e) = "]"
                          THEN [ok |-> TRUE, val |-> List(<<v.val>>), next |-> e + 1]
                          ELSE JSONDecodeError
        ELSE JSONDecodeError

\* json.loads: one value, surrounded by whitespace only.
json_loads(toks) ==
    LET v == ParseValue(toks, 1)
    IN  IF v.ok /\ SkipWs(toks, v.next) = Len(toks) + 1 THEN v ELSE JSONDecodeError

\* str.strip()
RECURSIVE Strip_text(_)
Strip_text(toks) ==
    IF toks # <<>> /\ Head(toks) = " " THEN Strip_text(Tail(toks))
    ELSE IF toks # <<>> /\ toks[Len(toks)] = " "
    THEN Strip_text(SubSeq(toks, 1, Len(toks) - 1))
    ELSE toks

\* re.search(r'```(?:json)?\s*(OPEN.*?CLOSE)\s*```', content, re.DOTALL): the
\* leftmost fence that starts a match, and for it the shortest group.
FencedMatches(toks, open, close) ==
    {m \in (1..Len(toks)) \X (1..Len(toks)) \X (1..Len(toks)) :
        /\ toks[m[1]] = "f"
        /\ m[2] = SkipWs(toks, m[1] + 1)
        /\ m[2] <= Len(toks) /\ toks[m[2]] = open
        /\ m[3] > m[2] /\ toks[m[3]] = close
        /\ LET e == SkipWs(toks, m[3] + 1) IN e <= Len(toks) /\ toks[e] = "f"}

FencedBlock(toks, open, close) ==
    LET ms == FencedMatches(toks, open, close)
        best == CHOOSE m \in ms :
                    \A n \in ms : m[1] < n[1] \/ (m[1] = n[1] /\ m[3] <= n[3])
    IN  IF ms = {} THEN None ELSE [text |-> SubSeq(toks, best[2], best[3])]

\* content[content.find(open) : content.rfind(close) + 1] when both exist
\* and the last close is after the first open.
OutermostBlock(toks, open, close) ==
    LET opens == {i \in 1..Len(toks) : toks[i] = open}
        closes == {i \in 1..Len(toks) : toks[i] = close}
        start == CHOOSE i \in opens : \A j \in opens : i <= j
        end == CHOOSE i \in closes : \A j \in closes : i >= j
    IN  IF opens # {} /\ closes # {} /\ end > start
        THEN [text |-> SubSeq(toks, start, end)] ELSE None

\* extract_json_block: the extracted text, or None.  content is None or a text.
extract_json_block(content) ==
    IF content = None \/ content.text = <<>> THEN None
    ELSE LET toks == content.text
         IN  IF FencedBlock(toks, "{", "}") # None THEN FencedBlock(toks, "{", "}")
             ELSE IF FencedBlock(toks, "[", "]") # None THEN FencedBlock(toks, "[", "]")
             ELSE IF OutermostBlock(toks, "{", "}") # None THEN OutermostBlock(toks, "{", "}")
             ELSE OutermostBlock(toks, "[", "]")

IsDict(v) == v.ok /\ v.val.type = "dict"

\* parse_json_response: how the call ends.
parse_json_response(content, default) ==
    LET dflt == IF default = None THEN Dict(<<>>) ELSE default
        json_str == extract_json_block(content)
        first == IF json_str # None THEN json_loads(json_str.text) ELSE JSONDecodeError
    IN  IF IsDict(first) THEN Returns(first.val)
        ELSE IF content = None THEN RaisesError("AttributeError")
        ELSE LET whole == json_loads(Strip_text(content.text))
             IN  IF IsDict(whole) THEN Returns(whole.val) ELSE Returns(dflt)

\* The default payloads the agents pass: none, {} and a _DEFAULT_RESPONSE.
DefaultResponse == [type |-> "dict", items |-> <<[type |-> "str"]>>]
Defaults == {None, Dict(<<>>), DefaultResponse}

\* What chat_completion returns: message.content, a text or None.
Text(toks) == [text |-> toks]
ResponseContents == {None} \cup {Text(t) : t \in Contents}

ParseInit ==
    /\ fcall = "parse_json_response"
    /\ fargs \in [content : ResponseContents, default : Defaults]
    /\ fret = Pending

ParseJsonResponse ==
    /\ fcall = "parse_json_response"
    /\ fret = Pending
    /\ fret' = parse_json_response(fargs.content, fargs.default)
    /\ UNCHANGED <<fcall, fargs>>
    /\ UNCHANGED othersCall

\* Responses long enough to hold a fenced block followed by another block.
MaxStrategyLen == 6

StrategiesInit ==
    /\ fcall = "parse_json_response (long content)"
    /\ fargs \in [content : {Text(t) : t \in SeqsUpTo(Tokens, MaxStrategyLen)},
                  default : {DefaultResponse}]
    /\ fret = Pending

ParseLongResponse ==
    /\ fcall = "parse_json_response (long content)"
    /\ fret = Pending
    /\ fret' = parse_json_response(fargs.content, fargs.default)
    /\ UNCHANGED <<fcall, fargs>>
    /\ UNCHANGED othersCall

(***************************************************************************)
(* Serialization (agents/state.py, agents/portfolio.py).  An enum member   *)
(* is its name; a string is the sequence of its words and separators.      *)
(***************************************************************************)
\* The value of each enum member.
EnumValue(member) ==
    CASE member = "UNIQUE" -> <<"unique">>
      [] member = "POSSIBLE_OVERLAP" -> <<"possible", "_", "overlap">>
      [] member = "UNCLEAR" -> <<"unclear">>
      [] member = "HAS_CODE" -> <<"has", "_", "code">>
      [] member = "DETAILED_PLAN" -> <<"detailed", "_", "plan">>
      [] member = "DETAILED_CONCEPT" -> <<"detailed", "_", "concept">>
      [] member = "CONCEPT_SUMMARY" -> <<"concept", "_", "summary">>
      [] member = "UNIVERSAL" -> <<"universal">>
      [] member = "BUSINESS_SPECIFIC" -> <<"business", "_", "specific">>
      [] member = "TECHNICAL_ONLY" -> <<"technical", "_", "only">>
      [] member = "EXCELLENT" -> <<"excellent">>
      [] member = "GOOD" -> <<"good">>
      [] member = "MODERATE" -> <<"moderate">>
      [] member = "POOR" -> <<"poor">>

\* The key of each member in the mapping of its from_string.
MappingKey(member) ==
    CASE member = "UNIQUE" -> <<"UNIQUE">>
      [] member = "POSSIBLE_OVERLAP" -> <<"POSSIBLE", "_", "OVERLAP">>
      [] member = "UNCLEAR" -> <<"UNCLEAR">>
      [] member = "HAS_CODE" -> <<"HAS", "_", "CODE">>
      [] member = "DETAILED_PLAN" -> <<"DETAILED", "_", "PLAN">>
      [] member = "DETAILED_CONCEPT" -> <<"DETAILED", "_", "CONCEPT">>
      [] member = "CONCEPT_SUMMARY" -> <<"CONCEPT", "_", "SUMMARY">>
      [] member = "UNIVERSAL" -> <<"UNIVERSAL">>
      [] member = "BUSINESS_SPECIFIC" -> <<"BUSINESS", "_", "SPECIFIC">>
      [] member = "TECHNICAL_ONLY" -> <<"TECHNICAL", "_", "ONLY">>
      [] member = "EXCELLENT" -> <<"EXCELLENT">>
      [] member = "GOOD" -> <<"GOOD">>
      [] member = "MODERATE" -> <<"MODERATE">>
      [] member = "POOR" -> <<"POOR">>

UpperWord(w) ==
    CASE w = "unique" -> "UNIQUE" [] w = "possible" -> "POSSIBLE"
      [] w = "overlap" -> "OVERLAP" [] w = "unclear" -> "UNCLEAR"
      [] w = "has" -> "HAS" [] w = "code" -> "CODE"
      [] w = "detailed" -> "DETAILED" [] w = "plan" -> "PLAN"
      [] w = "concept" -> "CONCEPT" [] w = "summary" -> "SUMMARY"
      [] w = "universal" -> "UNIVERSAL" [] w = "business" -> "BUSINESS"
      [] w = "specific" -> "SPECIFIC" [] w = "technical" -> "TECHNICAL"
      [] w = "only" -> "ONLY" [] w = "excellent" -> "EXCELLENT"
      [] w = "good" -> "GOOD" [] w = "moderate" -> "MODERATE"
      [] w = "poor" -> "POOR"
      [] OTHER -> w

\* str.upper() and str.replace(old, new)
Upper(text) == [i \in 1..Len(text) |-> UpperWord(text[i])]
Replace(text, old, new) == [i \in 1..Len(text) |-> IF text[i] = old THEN new ELSE text[i]]

\* mapping.get(normalized, default) of a from_string.
MappingGet(members, normalized, default) ==
    IF \E e \in members : MappingKey(e) = normalized
    THEN CHOOSE e \in members : MappingKey(e) = normalized
    ELSE default

\* A variant of the normalisation that leaves the spaces in place.
Normalize_upper_only(value) == Upper(value)

\* value.upper().replace(" ", "_")
Normalize(value) == Replace(Upper(value), " ", "_")

OverlapLevel_from_string(value) == MappingGet(OverlapLevel, Normalize(value), "UNCLEAR")
DevelopmentStage_from_string(value) ==
    MappingGet(DevelopmentStage, Normalize(value), "CONCEPT_SUMMARY")
BroadAppeal_from_string(value) == MappingGet(BroadAppeal, Normalize(value), "TECHNICAL_ONLY")
PlatformFit_from_string(value) == MappingGet(PlatformFit, Upper(value), "MODERATE")

\* dict.get(key, default) on a dict given as a record.
Get(data, key, default) == IF key \in DOMAIN data THEN data[key] ELSE default

final_analysis_to_dict(analysis) ==
    [overlap_level |-> Replace(Upper(EnumValue(analysis.overlap_level)), "_", " "),
     development_stage |-> Replace(Upper(EnumValue(analysis.development_stage)), "_", " "),
     use_case_overlap |-> analysis.use_case_overlap,
     similar_stack |-> analysis.similar_stack,
     adjacent_gaps |-> analysis.adjacent_gaps,
     clarification_needed |-> analysis.clarification_needed,
     summary |-> analysis.technical_summary,
     broad_appeal |-> Replace(Upper(EnumValue(analysis.broad_appeal)), "_", " "),
     personas_who_understand |-> analysis.personas_who_understand,
     personas_who_dont |-> analysis.personas_who_dont,
     persona_evaluations |-> analysis.persona_evaluations,
     appeal_summary |-> analysis.appeal_summary,
     features_identified |-> analysis.features_identified,
     features_new |-> analysis.features_new,
     features_reused |-> analysis.features_reused,
     platform_fit |-> Upper(EnumValue(analysis.platform_fit)),
     overall_recommendation |-> analysis.overall_recommendation,
     priority_score |-> analysis.priority_score,
     fills_portfolio_gap |-> analysis.fills_portfolio_gap,
     raw_analysis |-> analysis.raw_analysis]

dict_to_final_analysis(data) ==
    [overlap_level |-> OverlapLevel_from_string(Get(data, "overlap_level", <<"UNCLEAR">>)),
     development_stage |->
         DevelopmentStage_from_string(
             Get(data, "development_stage", <<"CONCEPT", "_", "SUMMARY">>)),
     use_case_overlap |-> Get(data, "use_case_overlap", <<>>),
     similar_stack |-> Get(data, "similar_stack", <<>>),
     adjacent_gaps |-> Get(data, "adjacent_gaps", <<>>),
     clarification_needed |-> Get(data, "clarification_needed", ""),
     technical_summary |-> Get(data, "summary", ""),
     broad_appeal |->
         BroadAppeal_from_string(Get(data, "broad_appeal", <<"TECHNICAL", "_", "ONLY">>)),
     personas_who_understand |-> Get(data, "personas_who_understand", <<>>),
     personas_who_dont |-> Get(data, "personas_who_dont", <<>>),
     persona_evaluations |-> Get(data, "persona_evaluations", <<>>),
     appeal_summary |-> Get(data, "appeal_summary", ""),
     features_identified |-> Get(data, "features_identified", <<>>),
     features_new |-> Get(data, "features_new", <<>>),
     features_reused |-> Get(data, "features_reused", <<>>),
     platform_fit |-> PlatformFit_from_string(Get(data, "platform_fit", <<"MODERATE">>)),
     overall_recommendation |-> Get(data, "overall_recommendation", <<>>),
     priority_score |-> Get(data, "priority_score", 5),
     fills_portfolio_gap |-> Get(data, "fills_portfolio_gap", <<>>),
     raw_analysis |-> Get(data, "raw_analysis", <<>>)]

PortfolioAnalysis ==
    [underserved_industries |-> <<>>, missing_use_cases |-> <<>>,
     undemonstrated_capabilities |-> <<>>, expected_adjacencies |-> <<>>,
     summary |-> "", notes |-> ""]

portfolio_analysis_to_dict(analysis) ==
    [underserved_industries |-> analysis.underserved_industries,
     missing_use_cases |-> analysis.missing_use_cases,
     undemonstrated_capabilities |-> analysis.undemonstrated_capabilities,
     expected_adjacencies |-> analysis.expected_adjacencies,
     summary |-> analysis.summary,
     notes |-> analysis.notes]

dict_to_portfolio_analysis(data) ==
    [underserved_industries |-> Get(data, "underserved_industries", <<>>),
     missing_use_cases |-> Get(data, "missing_use_cases", <<>>),
     undemonstrated_capabilities |-> Get(data, "undemonstrated_capabilities", <<>>),
     expected_adjacencies |-> Get(data, "expected_adjacencies", <<>>),
     summary |-> Get(data, "summary", ""),
     notes |-> Get(data, "notes", "")]

\* FinalAnalysis values: every enum member, every score the Coordinator can
\* give, and the lists and strings of each specialist either empty or filled.
Scores == 1..10
FinalAnalyses ==
    {[FinalAnalysisDefaults EXCEPT
        !.overlap_level = o, !.development_stage = d, !.broad_appeal = a,
        !.platform_fit = pf, !.priority_score = sc,
        !.use_case_overlap = IF t THEN <<"rag-chatbot">> ELSE <<>>,
        !.similar_stack = IF t THEN <<"llm-on-vllm">> ELSE <<>>,
        !.adjacent_gaps = IF t THEN <<"speech">> ELSE <<>>,
        !.clarification_needed = IF t THEN "Which data sources?" ELSE "",
        !.technical_summary = IF t THEN "Fraud scoring demo" ELSE "",
        !.personas_who_understand = IF b THEN <<"Data Scientist">> ELSE <<>>,
        !.personas_who_dont = IF b THEN <<"CFO">> ELSE <<>>,
        !.persona_evaluations =
            IF b THEN <<EvaluationDict(PersonaEvaluationsExample[1])>> ELSE <<>>,
        !.appeal_summary = IF b THEN "1/2 personas" ELSE "",
        !.features_identified = IF p THEN <<"vllm", "rag">> ELSE <<>>,
        !.features_new = IF p THEN <<"vllm">> ELSE <<>>,
        !.features_reused = IF p THEN <<"rag">> ELSE <<>>,
        !.fills_portfolio_gap = IF p THEN <<"Industry: Healthcare">> ELSE <<>>,
        !.overall_recommendation = IF t THEN <<<<"Unique use case">>>> ELSE <<>>,
        !.raw_analysis = IF t THEN <<[errors |-> <<>>]>> ELSE <<>>] :
        o \in OverlapLevel, d \in DevelopmentStage, a \in BroadAppeal,
        pf \in PlatformFit, sc \in Scores, t \in BOOLEAN, b \in BOOLEAN, p \in BOOLEAN}

PortfolioAnalyses ==
    {[underserved_industries |-> IF i THEN <<"Healthcare">> ELSE <<>>,
      missing_use_cases |-> IF u THEN <<"Fraud Detection">> ELSE <<>>,
      undemonstrated_capabilities |-> IF c THEN <<"Speech", "Vision">> ELSE <<>>,
      expected_adjacencies |-> IF a THEN <<"RAG + guardrails">> ELSE <<>>,
      summary |-> sm, notes |-> n] :
        i \in BOOLEAN, u \in BOOLEAN, c \in BOOLEAN, a \in BOOLEAN,
        sm \in {"", "Catalog is RAG-heavy"}, n \in {"", "Analysis failed: timeout"}}

RoundTripInit ==
    /\ \/ fcall = "final_analysis" /\ fargs \in FinalAnalyses
       \/ fcall = "portfolio_analysis" /\ fargs \in PortfolioAnalyses
    /\ fret = Pending

\* cache_analysis followed by get_cached_analysis: the FinalAnalysis goes to its
\* dict and back.
FinalRoundTrip ==
    /\ fcall = "final_analysis"
    /\ fret = Pending
    /\ fret' = Returns(dict_to_final_analysis(final_analysis_to_dict(fargs)))
    /\ UNCHANGED <<fcall, fargs>>
    /\ UNCHANGED othersCall

\* cache_portfolio followed by get_cached_portfolio.
PortfolioRoundTrip ==
    /\ fcall = "portfolio_analysis"
    /\ fret = Pending
    /\ fret' = Returns(dict_to_portfolio_analysis(portfolio_analysis_to_dict(fargs)))
    /\ UNCHANGED <<fcall, fargs>>
    /\ UNCHANGED othersCall

(***************************************************************************)
(* The TechnicalAnalysis the Technical Analyst emits (agents/technical.py) *)
(***************************************************************************)
_needs_clarification(overlap_level, dev_stage) ==
    LET overlap_clear == overlap_level \in {"UNIQUE", "POSSIBLE_OVERLAP"}
        stage_mature == dev_stage \in {"HAS_CODE", "DETAILED_PLAN"}
    IN  ~(overlap_clear /\ stage_mature)

\* "\n".join(parts) of the one or two default paragraphs.
_generate_default_clarification(overlap_level, dev_stage) ==
    LET use_case == overlap_level = "UNCLEAR"
        technical == dev_stage \in {"CONCEPT_SUMMARY", "DETAILED_CONCEPT"}
    IN  IF use_case /\ technical THEN "Use Case Details / Technical Details"
        ELSE IF use_case THEN "Use Case Details"
        ELSE IF technical THEN "Technical Details"
        ELSE ""

\* A variant of the consistency check that keeps UNIQUE.
ConsistentOverlap_unchecked(overlap_level, use_case_overlap) == overlap_level

\* Lines 134-135: listed use case overlaps exclude UNIQUE.
ConsistentOverlap(overlap_level, use_case_overlap) ==
    IF use_case_overlap # <<>> /\ overlap_level = "UNIQUE"
    THEN "POSSIBLE_OVERLAP" ELSE overlap_level

_build_analysis(response, fallback_note) ==
    LET summary0 == Get(response, "summary", "")
        summary == IF fallback_note # "" THEN <<fallback_note, summary0>> ELSE summary0
        overlap0 == OverlapLevel_from_string(Get(response, "overlap_level", <<"UNCLEAR">>))
        dev_stage == DevelopmentStage_from_string(
                         Get(response, "development_stage", <<"CONCEPT", "_", "SUMMARY">>))
        use_case_overlap == Get(response, "use_case_overlap", <<>>)
        clarification0 == Get(response, "clarification_needed", "")
        overlap_level == ConsistentOverlap(overlap0, use_case_overlap)
        clarification ==
            IF _needs_clarification(overlap_level, dev_stage) /\ Strip(clarification0) = ""
            THEN _generate_default_clarification(overlap_level, dev_stage)
            ELSE clarification0
    IN  [overlap_level |-> overlap_level,
         development_stage |-> dev_stage,
         use_case_overlap |-> use_case_overlap,
         similar_stack |-> Get(response, "similar_stack", <<>>),
         adjacent_gaps |-> Get(response, "adjacent_gaps", <<>>),
         clarification_needed |-> clarification,
         summary |-> summary]

\* A key of a parsed response: absent (no value) or present with a value.
Opt(key, values) ==
    IF values = {} THEN [k \in {} |-> k] ELSE key :> (CHOOSE v \in values : TRUE)

\* The dicts parse_json_response hands to _build_analysis: the enum fields as
\* the model wrote them (any case, space or underscore, or something else).
OverlapTexts ==
    {<<"UNIQUE">>, <<"unique">>, <<"POSSIBLE", "_", "OVERLAP">>,
     <<"possible", " ", "overlap">>, <<"UNCLEAR">>, <<"partial">>}
StageTexts ==
    {<<"HAS", "_", "CODE">>, <<"detailed", " ", "plan">>, <<"DETAILED", "_", "CONCEPT">>,
     <<"CONCEPT", "_", "SUMMARY">>, <<"prototype">>}
TechnicalResponses ==
    {Opt("overlap_level", o) @@ Opt("development_stage", d) @@ Opt("use_case_overlap", u)
       @@ Opt("clarification_needed", c) @@ Opt("summary", sm) :
        o \in {{}} \cup {{x} : x \in OverlapTexts},
        d \in {{}} \cup {{x} : x \in StageTexts},
        u \in {{}, {<<>>}, {<<"rag-chatbot">>}},
        c \in {{}, {""}, {" "}, {"Which data sources?"}},
        sm \in {{}, {"Fraud scoring demo"}}}

TechnicalInit ==
    /\ fcall = "technical_analyst_node"
    /\ fargs \in [response : TechnicalResponses]
    /\ fret = Pending

\* technical_analyst_node, lines 199-200: the result of the tool loop.
TechnicalEmitLoop ==
    /\ fcall = "technical_analyst_node"
    /\ fret = Pending
    /\ fret' = Returns(_build_analysis(fargs.response, ""))
    /\ UNCHANGED <<fcall, fargs>>
    /\ UNCHANGED othersCall

\* _fallback_analysis, lines 241-242: the result of the fallback prompt.
TechnicalEmitFallback ==
    /\ fcall = "technical_analyst_node"
    /\ fret = Pending
    /\ fret' = Returns(_build_analysis(fargs.response, "Fallback: timeout"))
    /\ UNCHANGED <<fcall, fargs>>
    /\ UNCHANGED othersCall

\* _fallback_analysis, lines 244-248: the degraded result.
TechnicalEmitDegraded ==
    /\ fcall = "technical_analyst_node"
    /\ fret = Pending
    /\ fret' = Returns(TechnicalFailedResult)
    /\ UNCHANGED <<fcall, fargs>>
    /\ UNCHANGED othersCall

(***************************************************************************)
(* determine_broad_appeal (agents/personas.py)                             *)
(***************************************************************************)
MaxPersonas == 5
Relevances == {"HIGH", "MEDIUM", "LOW", "NONE"}

\* The PersonaEvaluation lists persona_panel_node can collect.
PersonaEvaluation(relevance) ==
    [relevance |-> relevance, professionally_relevant |-> relevance \in {"HIGH", "MEDIUM"}]
EvaluationLists ==
    {[i \in 1..Len(rs) |-> PersonaEvaluation(rs[i])] : rs \in SeqsUpTo(Relevances, MaxPersonas)}

\* sum(1 for e in evaluations if e.relevance == level)
RECURSIVE CountRelevance(_, _)
CountRelevance(evaluations, level) ==
    IF evaluations = <<>> THEN 0
    ELSE (IF Head(evaluations).relevance = level THEN 1 ELSE 0)
         + CountRelevance(Tail(evaluations), level)

\* A variant that asks for both conditions of UNIVERSAL.
determine_broad_appeal_both(evaluations) ==
    IF evaluations = <<>> THEN "TECHNICAL_ONLY"
    ELSE LET high_relevance == CountRelevance(evaluations, "HIGH")
             medium_relevance == CountRelevance(evaluations, "MEDIUM")
             relevant_count == high_relevance + medium_relevance
         IN  IF relevant_count >= 4 /\ high_relevance >= 3 THEN "UNIVERSAL"
             ELSE IF relevant_count >= 2 THEN "BUSINESS_SPECIFIC"
             ELSE "TECHNICAL_ONLY"

determine_broad_appeal(evaluations) ==
    IF evaluations = <<>> THEN "TECHNICAL_ONLY"
    ELSE LET high_relevance == CountRelevance(evaluations, "HIGH")
             medium_relevance == CountRelevance(evaluations, "MEDIUM")
             relevant_count == high_relevance + medium_relevance
         IN  IF relevant_count >= 4 \/ high_relevance >= 3 THEN "UNIVERSAL"
             ELSE IF relevant_count >= 2 THEN "BUSINESS_SPECIFIC"
             ELSE "TECHNICAL_ONLY"

AppealInit ==
    /\ fcall = "determine_broad_appeal"
    /\ fargs \in EvaluationLists
    /\ fret = Pending

\* persona_panel_node, line 168.
DetermineBroadAppeal ==
    /\ fcall = "determine_broad_appeal"
    /\ fret = Pending
    /\ fret' = Returns(determine_broad_appeal(fargs))
    /\ UNCHANGED <<fcall, fargs>>
    /\ UNCHANGED othersCall

(***************************************************************************)
(* persona_panel_node and evaluate_with_persona (agents/personas.py).      *)
(* A configured persona is an entry of personas.yaml together with what    *)
(* the LLM does when asked on its behalf; persona i has id and name i.     *)
(* While the node runs, fret holds its locals.                             *)
(***************************************************************************)
MaxPanel == 3

\* A persona entry is a mapping or not; the call raises, or message.content
\* is None, a JSON object (with a "relevance" value, listed or not, or without
\* the key), or prose mentioning some of the levels.
Behaviour(entry, response, relevance, mentions) ==
    [entry |-> entry, response |-> response, relevance |-> relevance, mentions |-> mentions]
PersonaBehaviours ==
    {Behaviour("not a mapping", "unused", "", {})}
    \cup {Behaviour("mapping", r, "", {}) : r \in {"raises", "None"}}
    \cup {Behaviour("mapping", "json", v, {}) : v \in Relevances \cup {"high", "absent"}}
    \cup {Behaviour("mapping", "text", "", ms) :
            ms \in {{}, {"LOW"}, {"MEDIUM", "LOW"}, {"HIGH", "LOW"}}}

Evaluation(persona_id, relevant, relevance, explanation) ==
    [persona_id |-> persona_id, persona_name |-> persona_id,
     professionally_relevant |-> relevant, relevance |-> relevance,
     explanation |-> explanation]

\* _parse_persona_response for a content that is not None: the parsed object
\* when it is non-empty, else the levels found in the upper-cased text.
_parse_persona_response(b) ==
    IF b.response = "json"
    THEN [relevance |-> IF b.relevance = "absent" THEN "NONE" ELSE b.relevance,
          professionally_relevant |-> b.relevance \in {"HIGH", "MEDIUM", "high"},
          explanation |-> "explanation"]
    ELSE LET relevance == IF "HIGH" \in b.mentions THEN "HIGH"
                          ELSE IF "MEDIUM" \in b.mentions THEN "MEDIUM"
                          ELSE IF "LOW" \in b.mentions THEN "LOW"
                          ELSE "NONE"
         IN  [relevance |-> relevance,
              professionally_relevant |-> relevance \in {"HIGH", "MEDIUM"},
              explanation |-> "content[:200]"]

\* evaluate_with_persona: how the future of persona i ends.
evaluate_with_persona(i, b) ==
    IF b.entry = "not a mapping"
    THEN RaisesError("AttributeError")            \* persona.get, line 37
    ELSE IF b.response \in {"raises", "None"}     \* caught at line 66
    THEN Returns(Evaluation(i, FALSE, "NONE", "Evaluation failed: ..."))
    ELSE LET result == _parse_persona_response(b)
         IN  Returns(Evaluation(i, result.professionally_relevant, result.relevance,
                                result.explanation))

\* [e.persona_name for e in evaluations if e.relevance in levels]
RECURSIVE NamesWith(_, _)
NamesWith(evaluations, levels) ==
    IF evaluations = <<>> THEN <<>>
    ELSE (IF Head(evaluations).relevance \in levels
          THEN <<Head(evaluations).persona_name>> ELSE <<>>)
         \o NamesWith(Tail(evaluations), levels)

PanelInit ==
    /\ fcall = "persona_panel_node"
    /\ fargs \in SeqsUpTo(PersonaBehaviours, MaxPanel)
    /\ fret = Pending

\* Lines 135-160: load_personas, the early return, the submissions.
PanelSubmit ==
    /\ fcall = "persona_panel_node"
    /\ fret = Pending
    /\ fret' = IF fargs = <<>>
               THEN Returns([broad_appeal_analysis |->
                                [BroadAppealAnalysis EXCEPT
                                    !.summary = "No personas configured for evaluation."],
                             errors |-> <<"Persona Panel: No personas found">>])
               ELSE [kind |-> "running", completed |-> {},
                     evaluations |-> <<>>, errors |-> <<>>]
    /\ UNCHANGED <<fcall, fargs>>
    /\ UNCHANGED othersCall

\* One round of `for future in as_completed(futures)`, lines 160-165: any
\* future not yet seen may be the next to complete.
PanelCollect ==
    /\ fcall = "persona_panel_node"
    /\ fret.kind = "running"
    /\ \E i \in (1..Len(fargs)) \ fret.completed :
          LET outcome == evaluate_with_persona(i, fargs[i])
          IN  fret' =
                IF outcome.kind = "returns"
                THEN [fret EXCEPT !.completed = @ \cup {i},
                                  !.evaluations = Append(@, outcome.value)]
                ELSE IF fargs[i].entry = "not a mapping"
                THEN RaisesError("AttributeError")   \* persona.get('id'), line 165
                ELSE [fret EXCEPT !.completed = @ \cup {i},
                                  !.errors = Append(@, "Persona failed")]
    /\ UNCHANGED <<fcall, fargs>>
    /\ UNCHANGED othersCall

\* Lines 167-200: the aggregation, once every future has been seen.
PanelAggregate ==
    /\ fcall = "persona_panel_node"
    /\ fret.kind = "running"
    /\ fret.completed = 1..Len(fargs)
    /\ fret' = Returns(
          [broad_appeal_analysis |->
              [broad_appeal |-> determine_broad_appeal(fret.evaluations),
               personas_who_understand |-> NamesWith(fret.evaluations, {"HIGH", "MEDIUM"}),
               personas_who_dont |-> NamesWith(fret.evaluations, {"LOW", "NONE"}),
               evaluations |-> fret.evaluations,
               summary |-> "classification"],
           errors |-> fret.errors])
    /\ UNCHANGED <<fcall, fargs>>
    /\ UNCHANGED othersCall

(***************************************************************************)
(* Platform Specialist: _classify_features and _build_analysis             *)
(* (agents/platform.py).  An identified feature is the dict the model      *)
(* returned for it: its "id" is a catalog id, an id outside the catalog,   *)
(* or "" when the key is missing (feat.get("id", "")).                     *)
(***************************************************************************)
MaxIdentified == 3
CatalogIds == {"vllm", "rag", "pipelines"}
IdentifiedIds == CatalogIds \cup {"unknown_feature", ""}

\* _classify_features: (new_features, reused_features).
RECURSIVE _classify_features(_, _, _)
_classify_features(identified, valid_ids, demonstrated) ==
    IF identified = <<>> THEN [new |-> <<>>, reused |-> <<>>]
    ELSE LET feat_id == identified[Len(identified)].id
             before == _classify_features(SubSeq(identified, 1, Len(identified) - 1),
                                          valid_ids, demonstrated)
         IN  IF feat_id \notin valid_ids THEN before
             ELSE IF feat_id \in demonstrated
             THEN [before EXCEPT !.reused = Append(@, feat_id)]
             ELSE [before EXCEPT !.new = Append(@, feat_id)]

\* _FIT_MAP.get(response.get("platform_fit", "MODERATE").upper(), MODERATE)
FitOf(text) ==
    CASE text \in {"EXCELLENT", "excellent"} -> "EXCELLENT"
      [] text \in {"POOR"} -> "POOR"
      [] OTHER -> "MODERATE"

\* platform._build_analysis: the PlatformAnalysis built from a parsed response.
platform_build_analysis(response, valid_ids, demonstrated) ==
    LET identified == response.features_identified
        classified == _classify_features(identified, valid_ids, demonstrated)
    IN  [features_identified |-> identified,
         features_new |-> classified.new,
         features_reused |-> classified.reused,
         platform_fit |-> FitOf(response.platform_fit),
         notes |-> IF classified.new # <<>> THEN "Would demonstrate new feature(s)" ELSE ""]

PlatformInit ==
    /\ fcall = "platform._build_analysis"
    /\ fargs \in [response : [features_identified :
                                 SeqsUpTo([id : IdentifiedIds], MaxIdentified),
                              platform_fit : {"excellent", "POOR", "great"}],
                  valid_ids : {CatalogIds},
                  demonstrated : SUBSET CatalogIds]
    /\ fret = Pending

\* platform_specialist_node, line 197 (and the fallback, which builds likewise).
PlatformBuildAnalysis ==
    /\ fcall = "platform._build_analysis"
    /\ fret = Pending
    /\ fret' = Returns(platform_build_analysis(fargs.response, fargs.valid_ids,
                                               fargs.demonstrated))
    /\ UNCHANGED <<fcall, fargs>>
    /\ UNCHANGED othersCall

(***************************************************************************)
(* _detect_portfolio_gaps_filled as a single call (coordinator.py:114-183) *)
(***************************************************************************)
MaxGapEntries == 2

\* The categories of a keyword dictionary.
NamesOf(dict) == {dict[k].name : k \in 1..Len(dict)}

\* Gap descriptors: the empty dict, or lists of entries, each entry given by
\* the category names its text contains (none, one or several).
GapDescriptors ==
    {NoGaps} \cup
    [kind : {"gaps"},
     industries : SeqsUpTo(SUBSET NamesOf(industry_keywords), MaxGapEntries),
     use_cases : SeqsUpTo(SUBSET NamesOf(use_case_keywords), MaxGapEntries),
     capabilities : SeqsUpTo(SUBSET NamesOf(capability_keywords), MaxGapEntries)]

GapsInit ==
    /\ fcall = "_detect_portfolio_gaps_filled"
    /\ fargs \in [issue : [title : {"", "Fraud scoring demo"},
                           body : {"", "Patient triage assistant"}],
                  analysis : [technical_summary :
                                 {"", "Fraud scoring demo", "Speech demo"}],
                  gaps : GapDescriptors]
    /\ fret = Pending

\* coordinator_node, line 66.
DetectGapsFilled ==
    /\ fcall = "_detect_portfolio_gaps_filled"
    /\ fret = Pending
    /\ fret' = Returns(_detect_portfolio_gaps_filled(fargs.issue, fargs.analysis, fargs.gaps))
    /\ UNCHANGED <<fcall, fargs>>
    /\ UNCHANGED othersCall

(***************************************************************************)
(* get_client (llm/client.py:17-43), called through chat_completion and    *)
(* chat_with_tools by the specialists of one issue, which the graph runs   *)
(* in parallel, and by the threads of the Persona Panel's pool.  The       *)
(* module global _client is 0 for None, else the number of the OpenAI      *)
(* object it refers to.  While the callers run, fret holds _client, each   *)
(* caller's position and the client each caller got.                       *)
(***************************************************************************)
Callers == {"technical_analyst", "platform_specialist", "persona 1", "persona 2"}

ClientInit ==
    /\ fcall = "get_client"
    /\ fargs \in [callers : (SUBSET Callers) \ {{}}, _client : {0, 1}]
    /\ fret = Pending

\* The callers start: the graph's superstep, the panel's executor.submit.
ClientStart ==
    /\ fcall = "get_client"
    /\ fret = Pending
    /\ fret' = [kind |-> "running", _client |-> fargs._client,
                constructed |-> fargs._client,
                pc |-> [c \in fargs.callers |-> "call"],
                got |-> [c \in fargs.callers |-> 0]]
    /\ UNCHANGED <<fcall, fargs>>
    /\ UNCHANGED othersCall

\* Line 28, `if _client is None:`, and line 43 when it is not.
ClientCheck ==
    /\ fcall = "get_client"
    /\ fret.kind = "running"
    /\ \E c \in fargs.callers :
          /\ fret.pc[c] = "call"
          /\ fret' = IF fret._client = 0
                     THEN [fret EXCEPT !.pc[c] = "constructing"]
                     ELSE [fret EXCEPT !.pc[c] = "returned", !.got[c] = fret._client]
    /\ UNCHANGED <<fcall, fargs>>
    /\ UNCHANGED othersCall

\* Lines 30-41 and 43: `_client = OpenAI(...)`, then `return _client`.
ClientAssign ==
    /\ fcall = "get_client"
    /\ fret.kind = "running"
    /\ \E c \in fargs.callers :
          /\ fret.pc[c] = "constructing"
          /\ fret' = [fret EXCEPT !.pc[c] = "returned",
                                  !.constructed = @ + 1,
                                  !._client = fret.constructed + 1,
                                  !.got[c] = fret.constructed + 1]
    /\ UNCHANGED <<fcall, fargs>>
    /\ UNCHANGED othersCall

(***************************************************************************)
(* The fallback chain of the Technical Analyst (technical.py:186-248).     *)
(* What the two LLM attempts do is part of the call's input: "" for an     *)
(* attempt that succeeds, else the text of the exception it raises.        *)
(***************************************************************************)
ErrorTexts == {"rate limit", "timeout"}

\* f"Fallback: {error}", f"Analysis failed: {e2}", f"Technical Analyst error: {e2}"
FallbackNote(error) ==
    CASE error = "rate limit" -> "Fallback: rate limit"
      [] error = "timeout" -> "Fallback: timeout"
AnalysisFailed(error) ==
    CASE error = "rate limit" -> "Analysis failed: rate limit"
      [] error = "timeout" -> "Analysis failed: timeout"
TechnicalAnalystError(error) ==
    CASE error = "rate limit" -> "Technical Analyst error: rate limit"
      [] error = "timeout" -> "Technical Analyst error: timeout"

\* The error texts a text mentions.
Mentions(text) ==
    CASE text \in {"Fallback: rate limit", "Analysis failed: rate limit",
                   "Technical Analyst error: rate limit"} -> {"rate limit"}
      [] text \in {"Fallback: timeout", "Analysis failed: timeout",
                   "Technical Analyst error: timeout"} -> {"timeout"}
      [] OTHER -> {}

ChainInit ==
    /\ fcall = "technical_fallback_chain"
    /\ fargs \in [response : TechnicalResponses,
                  loop_error : ErrorTexts \cup {""},
                  fallback_error : ErrorTexts \cup {""}]
    /\ fret = Pending

\* technical_analyst_node, lines 186-204: the try block and its except.
ChainToolLoop ==
    /\ fcall = "technical_fallback_chain"
    /\ fret = Pending
    /\ fret' = IF fargs.loop_error = ""
               THEN Returns([technical_analysis |-> _build_analysis(fargs.response, ""),
                             errors |-> <<>>, attempts |-> 1])
               ELSE [kind |-> "fallback", error |-> fargs.loop_error]
    /\ UNCHANGED <<fcall, fargs>>
    /\ UNCHANGED othersCall

\* _fallback_analysis(state, str(e)), lines 233-248.
ChainFallback ==
    /\ fcall = "technical_fallback_chain"
    /\ fret.kind = "fallback"
    /\ fret' = IF fargs.fallback_error = ""
               THEN Returns([technical_analysis |->
                                _build_analysis(fargs.response, FallbackNote(fret.error)),
                             errors |-> <<>>, attempts |-> 2])
               ELSE Returns([technical_analysis |->
                                [TechnicalAnalysis EXCEPT
                                    !.summary = AnalysisFailed(fargs.fallback_error)],
                             errors |-> <<TechnicalAnalystError(fargs.fallback_error)>>,
                             attempts |-> 2])
    /\ UNCHANGED <<fcall, fargs>>
    /\ UNCHANGED othersCall

(***************************************************************************)
(* Specifications                                                          *)
(***************************************************************************)
SpecScoreInit == ScoreInit /\ ToolsIdle /\ GraphIdle /\ BatchIdle /\ MergeIdle /\ CallIdle
SpecScoreNext == CoordinatorScore
SpecScore == SpecScoreInit /\ [][SpecScoreNext]_vars

SpecToolsInit == ToolsInit /\ ScoreIdle /\ GraphIdle /\ BatchIdle /\ MergeIdle /\ CallIdle
SpecToolsNext == ModelTurn \/ ExecuteTools \/ FinalCall \/ ModelCallRaises
SpecTools == SpecToolsInit /\ [][SpecToolsNext]_vars

SpecGraphInit == GraphInit /\ ScoreIdle /\ ToolsIdle /\ BatchIdle /\ MergeIdle /\ CallIdle
SpecGraphNext ==
    \/ TechnicalBuildPrompt \/ TechnicalToolLoop
    \/ TechnicalFallbackPrompt \/ TechnicalFallbackCall
    \/ PersonaLoad \/ PersonaPanel
    \/ PlatformPrepare \/ PlatformCall
    \/ Barrier \/ GraphRaises \/ CoordinatorNode
SpecGraph == SpecGraphInit /\ [][SpecGraphNext]_vars

SpecBatchInit == BatchInit /\ ScoreIdle /\ ToolsIdle /\ GraphIdle /\ MergeIdle /\ CallIdle
SpecBatchNext ==
    \/ Invoke \/ Dispatch \/ Collect \/ PoolExit
    \/ clear_analysis_store
    \/ UnitBegin \/ Lookup \/ AnalyzeIssue
    \/ CacheLoad \/ CacheOpen \/ CacheDump
SpecBatch == SpecBatchInit /\ [][SpecBatchNext]_vars

SpecReportInit == BatchInit /\ ScoreIdle /\ ToolsIdle /\ GraphIdle /\ MergeIdle /\ CallIdle
SpecMergeInit == MergeInit /\ ScoreIdle /\ ToolsIdle /\ GraphIdle /\ BatchIdle /\ CallIdle
SpecMergeNext == CoordMerge \/ CoordReturn \/ CoordGuardrail \/ CoordRerun
SpecMerge == SpecMergeInit /\ [][SpecMergeNext]_vars

SpecParseInit ==
    ParseInit /\ ScoreIdle /\ ToolsIdle /\ GraphIdle /\ BatchIdle /\ MergeIdle
SpecParseNext == ParseJsonResponse
SpecParse == SpecParseInit /\ [][SpecParseNext]_vars

SpecRoundTripInit ==
    RoundTripInit /\ ScoreIdle /\ ToolsIdle /\ GraphIdle /\ BatchIdle /\ MergeIdle
SpecRoundTripNext == FinalRoundTrip \/ PortfolioRoundTrip
SpecRoundTrip == SpecRoundTripInit /\ [][SpecRoundTripNext]_vars

SpecTechnicalInit ==
    TechnicalInit /\ ScoreIdle /\ ToolsIdle /\ GraphIdle /\ BatchIdle /\ MergeIdle
SpecTechnicalNext == TechnicalEmitLoop \/ TechnicalEmitFallback \/ TechnicalEmitDegraded
SpecTechnical == SpecTechnicalInit /\ [][SpecTechnicalNext]_vars

SpecAppealInit ==
    AppealInit /\ ScoreIdle /\ ToolsIdle /\ GraphIdle /\ BatchIdle /\ MergeIdle
SpecAppealNext == DetermineBroadAppeal
SpecAppeal == SpecAppealInit /\ [][SpecAppealNext]_vars

SpecPhaseInit ==
    PhaseInit /\ ScoreIdle /\ ToolsIdle /\ GraphIdle /\ MergeIdle /\ CallIdle
SpecPhaseNext ==
    InvokePhase \/ PortfolioPhase \/ Dispatch \/ Collect \/ PoolExit
        \/ UnitBegin \/ Lookup \/ AnalyzeIssue \/ CacheLoad \/ CacheOpen \/ CacheDump
SpecPhase == SpecPhaseInit /\ [][SpecPhaseNext]_vars

SpecChainInit ==
    ChainInit /\ ScoreIdle /\ ToolsIdle /\ GraphIdle /\ BatchIdle /\ MergeIdle
SpecChainNext == ChainToolLoop \/ ChainFallback
SpecChain == SpecChainInit /\ [][SpecChainNext]_vars

SpecStrategiesInit ==
    StrategiesInit /\ ScoreIdle /\ ToolsIdle /\ GraphIdle /\ BatchIdle /\ MergeIdle
SpecStrategiesNext == ParseLongResponse
SpecStrategies == SpecStrategiesInit /\ [][SpecStrategiesNext]_vars

SpecPanelInit ==
    PanelInit /\ ScoreIdle /\ ToolsIdle /\ GraphIdle /\ BatchIdle /\ MergeIdle
SpecPanelNext == PanelSubmit \/ PanelCollect \/ PanelAggregate
SpecPanel == SpecPanelInit /\ [][SpecPanelNext]_vars

SpecPlatformInit ==
    PlatformInit /\ ScoreIdle /\ ToolsIdle /\ GraphIdle /\ BatchIdle /\ MergeIdle
SpecPlatformNext == PlatformBuildAnalysis
SpecPlatform == SpecPlatformInit /\ [][SpecPlatformNext]_vars

SpecGapsInit ==
    GapsInit /\ ScoreIdle /\ ToolsIdle /\ GraphIdle /\ BatchIdle /\ MergeIdle
SpecGapsNext == DetectGapsFilled
SpecGaps == SpecGapsInit /\ [][SpecGapsNext]_vars

SpecClientInit ==
    ClientInit /\ ScoreIdle /\ ToolsIdle /\ GraphIdle /\ BatchIdle /\ MergeIdle
SpecClientNext == ClientStart \/ ClientCheck \/ ClientAssign
SpecClient == SpecClientInit /\ [][SpecClientNext]_vars

SpecReportNext ==
    \/ InvokeReport \/ PortfolioPhase \/ Dispatch \/ Collect \/ PoolExit
    \/ clear_analysis_store
    \/ UnitBegin \/ Lookup \/ AnalyzeIssue
    \/ CacheLoad \/ CacheOpen \/ CacheDump
SpecReport == SpecReportInit /\ [][SpecReportNext]_vars

(***************************************************************************)
(* Claims                                                                  *)
(***************************************************************************)
OverlapBonus(o) == IF o = "UNIQUE" THEN 1 ELSE IF o = "UNCLEAR" THEN -1 ELSE 0
StageBonus(s) == IF s = "HAS_CODE" THEN 2 ELSE IF s = "DETAILED_PLAN" THEN 1
                 ELSE IF s = "DETAILED_CONCEPT" THEN 0 ELSE -3
AppealBonus(a) == IF a = "UNIVERSAL" THEN 1 ELSE IF a = "TECHNICAL_ONLY" THEN -1 ELSE 0
Clamp(x, lo, hi) == IF x < lo THEN lo ELSE IF x > hi THEN hi ELSE x

\* C10: once the Coordinator has scored a FinalAnalysis, its priority score is
\* clamp(4 + o + s + a + min(n,2) + min(g,2), 1, 10) with the documented
\* per-field bonuses, hence an integer in 1..10, and UNIQUE / HAS_CODE /
\* TECHNICAL_ONLY with no new feature and no filled gap scores 6.
C10_PriorityScoreFormula ==
    cpc = "scored" =>
        /\ final.priority_score =
             Clamp(4 + OverlapBonus(final.overlap_level)
                     + StageBonus(final.development_stage)
                     + AppealBonus(final.broad_appeal)
                     + Min(Len(final.features_new), 2)
                     + Min(Len(final.fills_portfolio_gap), 2), 1, 10)
        /\ final.priority_score \in 1..10
        /\ (/\ final.overlap_level = "UNIQUE"
            /\ final.development_stage = "HAS_CODE"
            /\ final.broad_appeal = "TECHNICAL_ONLY"
            /\ final.features_new = <<>>
            /\ final.fills_portfolio_gap = <<>>) => final.priority_score = 6

\* Witness for C10: a scored analysis whose raw sum exceeds 10 and is clamped.
C10_Witness ==
    /\ cpc = "scored"
    /\ final.overlap_level = "UNIQUE" /\ final.development_stage = "HAS_CODE"
    /\ final.broad_appeal = "UNIVERSAL"
    /\ Len(final.features_new) = 3 /\ Len(final.fills_portfolio_gap) = 3
    /\ final.priority_score = 10

CountRole(msgs, r) == Cardinality({i \in 1..Len(msgs) : msgs[i].role = r})

\* C3: chat_with_tools terminates within N+1 model calls: it returns at the
\* first model turn that requests no tool call (that turn's text, the
\* transcript, no tool executed afterwards); after N tool-requesting turns it
\* makes exactly one more call, with tools disabled, and returns its text.
C3_BoundedToolLoop ==
    /\ model_calls <= max_iterations + 1
    /\ iteration <= max_iterations
    /\ tpc \in {"AWAITING_MODEL", "EXECUTING_TOOLS"} => ENABLED SpecToolsNext
    /\ CountRole(messages, "assistant") =
          iteration + (IF tpc = "EXECUTING_TOOLS" THEN 1 ELSE 0)
    /\ last_turn # NoTurn /\ ~last_turn.tools =>
          iteration = max_iterations /\ model_calls = max_iterations + 1
    /\ tpc = "DONE" =>
          /\ ~ENABLED SpecToolsNext
          /\ returned.content = ContentOrEmpty(last_turn.text)
          /\ returned.messages = messages
          /\ tools_executed = CountRole(messages, "tool")
          /\ last_turn.ncalls = 0
          /\ IF last_turn.tools
             THEN iteration < max_iterations /\ model_calls = iteration + 1
             ELSE iteration = max_iterations /\ model_calls = max_iterations + 1

\* Witness for C3: budget 3, three tool-requesting turns, then the forced
\* tools-disabled call (the fourth model call) returned.
C3_Witness ==
    /\ tpc = "DONE" /\ max_iterations = 3 /\ iteration = 3
    /\ ~last_turn.tools /\ model_calls = 4 /\ returned.content = "answer"

\* C4: a tool call naming an unknown tool, or whose function raises, yields an
\* error result for that call only: every call of the turn gets its own result
\* message, in call order, and the loop proceeds to the next model turn; no
\* tool failure ever ends the loop with an exception.
C4_ToolFailureIsolated ==
    /\ tpc = "RAISED" => last_turn.text = "EXCEPTION"
    /\ (tpc # "EXECUTING_TOOLS" /\ tool_calls # <<>>) =>
          LET k == Len(tool_calls)
              base == Len(messages) - k
          IN  /\ base >= 1
              /\ messages[base] = AssistantMessage(messages[base].content, tool_calls)
              /\ \A i \in 1..k :
                    /\ messages[base + i].role = "tool"
                    /\ messages[base + i].tool_call_id = tool_calls[i].id
                    /\ messages[base + i].content =
                         (IF tool_calls[i].name \notin ToolNames
                          THEN "error: Unknown tool"
                          ELSE IF tool_calls[i].behaviour = "raises"
                          THEN "error: exception text"
                          ELSE "tool output")
              /\ CountRole(messages, "assistant") = iteration
              /\ tools_executed = CountRole(messages, "tool")

\* Witness for C4: a turn whose first call raised and whose second call still
\* ran and returned, after an earlier turn that named an unknown tool; the loop
\* is awaiting the next model turn.
C4_Witness ==
    /\ tpc = "AWAITING_MODEL" /\ Len(tool_calls) = 2
    /\ tool_calls[1].behaviour = "raises"
    /\ tool_calls[2].name = "semantic_search" /\ tool_calls[2].behaviour = "returns"
    /\ messages[Len(messages) - 1].content = "error: exception text"
    /\ messages[Len(messages)].content = "tool output"
    /\ \E j \in 1..Len(messages) : messages[j].role = "tool"
                                   /\ messages[j].content = "error: Unknown tool"

C2_NodeNeverPropagates ==
    /\ \A n \in SpecialistNodes : gnode[n] # "raised"
    /\ gpc # "raised"
    /\ \A n \in SpecialistNodes :
          (gnode[n] = "done" /\ gupdate[n].result.kind = "degraded")
              => gupdate[n].errors # <<>>

\* C5 (as claimed): for any input list, pool width and completion order, the
\* list generate_report_analysis returns has the input's length, no missing
\* entry, and at position i the result of the i-th issue's work unit; and the
\* index mapping finds a position for every completed unit.
C5_OrderPreserved ==
    /\ PoolRunning =>
          \A i \in collected :
              uresult[i].source # "raised" => KeyOf(i) \in DOMAIN issue_order
    /\ mpc = "returned" =>
          /\ Len(results) = Len(issues)
          /\ \A i \in 1..Len(issues) :
                /\ results[i] # None
                /\ results[i] = uresult[i]
                /\ results[i].issue_number = KeyOf(i)

\* C6 (as claimed): no exception of a work unit leaves the unit; a unit that
\* failed returns the placeholder, so the batch is never aborted by a unit.
C6_UnitFailureContained ==
    \A i \in DOMAIN upc :
        upc[i] = "done" => uresult[i].source \in {"cached", "analyzed", "placeholder"}

\* C7: a work unit returns the cached result only when force is not set and
\* the cache held an entry for its issue number at the lookup, and then the
\* graph was not run (the unit went from the lookup straight to its return);
\* with force set the cache is not consulted; the graph is started only with
\* force set or after a miss; and a unit that returns the graph's result has
\* written it under its issue number to the store before it returns.
C7_Step ==
    \A i \in DOMAIN upc \cap DOMAIN upc' :
        /\ (upc[i] # "done" /\ upc'[i] = "done" /\ uresult'[i].source = "cached") =>
              /\ ~force_reanalyze
              /\ upc[i] = "lookup"
              /\ analysis_file.entries[KeyOf(i)] \in EntryKinds
              /\ uresult'[i].analysis = analysis_file.entries[KeyOf(i)]
        /\ (upc[i] = "lookup" /\ ~LoadRaises(analysis_file)
                /\ analysis_file.entries[KeyOf(i)] # "none") =>
              /\ upc'[i] \in {"lookup", "done"}
              /\ upc'[i] = "done" => uresult'[i].source \in {"cached", "raised"}
        /\ force_reanalyze => ucached'[i] = "unread" /\ upc'[i] # "lookup"
        /\ upc'[i] \in {"start", "cache", "loaded", "writing"} =>
              force_reanalyze \/ ucached'[i] = "none"
        /\ (upc[i] # "done" /\ upc'[i] = "done" /\ uresult'[i].source = "analyzed") =>
              /\ upc[i] = "writing"
              /\ uresult'[i].analysis = uresult[i].analysis
              /\ analysis_file'.valid
              /\ analysis_file'.entries[KeyOf(i)] = uresult'[i].analysis
C7_CacheThenGraph == [][C7_Step]_vars

\* Witness for C7: a returned batch in which one unit was served from the cache
\* and another ran the graph and wrote its result.
C7_Witness ==
    /\ mpc = "returned" /\ ~force_reanalyze
    /\ \E i, j \in DOMAIN upc :
          /\ uresult[i].source = "cached"
          /\ uresult[j].source = "analyzed" /\ ucached[j] = "none"
          /\ analysis_file.entries[KeyOf(j)] = uresult[j].analysis

C9_DegradedNotServedFromCache ==
    /\ \A i \in DOMAIN upc :
          (upc[i] = "done" /\ uresult[i].source = "cached")
              => uresult[i].analysis # "degraded"
    /\ portfolio # None =>
          ~(portfolio.source = "cached" /\ portfolio.kind = "degraded")

\* C11 (as claimed): when every specialist-sourced field of the FinalAnalysis is
\* at its default (no specialist result available) and no gap is filled, the
\* priority score the Coordinator computes is the base score 4.
C11_DefaultsScoreBase ==
    (/\ cpc = "scored"
     /\ [final EXCEPT !.priority_score = FinalAnalysis.priority_score] = FinalAnalysis)
        => final.priority_score = 4

\* C12 (as claimed): running coordinator_node again on the same state returns a
\* FinalAnalysis identical in every field, raw_analysis included.
C12_MergeDeterministic ==
    (cpos = "returned" /\ cprev # None) => cfinal = cprev

\* The fields of a FinalAnalysis that each specialist owns.
TechnicalFields(f) ==
    <<f.overlap_level, f.development_stage, f.use_case_overlap, f.similar_stack,
      f.adjacent_gaps, f.clarification_needed, f.technical_summary>>
AppealFields(f) ==
    <<f.broad_appeal, f.personas_who_understand, f.personas_who_dont,
      f.persona_evaluations, f.appeal_summary>>
PlatformFields(f) ==
    <<f.features_identified, f.features_new, f.features_reused, f.platform_fit>>

TechnicalFieldsOf(t) ==
    <<t.overlap_level, t.development_stage, t.use_case_overlap, t.similar_stack,
      t.adjacent_gaps, t.clarification_needed, t.summary>>
AppealFieldsOf(b) ==
    <<b.broad_appeal, b.personas_who_understand, b.personas_who_dont,
      [i \in 1..Len(b.evaluations) |->
          [name |-> b.evaluations[i].persona_name,
           relevance |-> b.evaluations[i].relevance,
           explanation |-> b.evaluations[i].explanation]],
      b.summary>>
PlatformFieldsOf(p) ==
    <<p.features_identified, p.features_new, p.features_reused, p.platform_fit>>

Merged == cpos \in {"built", "returned"}

\* C13 (amended): in the FinalAnalysis the Coordinator builds, the fields owned
\* by a specialist equal that specialist's result when the state holds one (a
\* degraded result included) and are at the FinalAnalysis defaults when the
\* state holds none; no result changes a field owned by another specialist.
C13_FieldsFromOneSpecialist ==
    Merged =>
        /\ TechnicalFields(cfinal) =
              IF cstate.technical_analysis # None
              THEN TechnicalFieldsOf(cstate.technical_analysis)
              ELSE TechnicalFields(FinalAnalysisDefaults)
        /\ AppealFields(cfinal) =
              IF cstate.broad_appeal_analysis # None
              THEN AppealFieldsOf(cstate.broad_appeal_analysis)
              ELSE AppealFields(FinalAnalysisDefaults)
        /\ PlatformFields(cfinal) =
              IF cstate.platform_analysis # None
              THEN PlatformFieldsOf(cstate.platform_analysis)
              ELSE PlatformFields(FinalAnalysisDefaults)

\* C13 (as claimed): the fields owned by a specialist that was disabled or
\* failed are left at their defaults (UNCLEAR, CONCEPT_SUMMARY, TECHNICAL_ONLY,
\* MODERATE, empty lists and strings).
C13_FailedLeavesDefaults ==
    Merged =>
        /\ cstate.technical_analysis \in {None, TechnicalFailedResult}
              => TechnicalFields(cfinal) = TechnicalFields(FinalAnalysisDefaults)
        /\ cstate.broad_appeal_analysis = None
              => AppealFields(cfinal) = AppealFields(FinalAnalysisDefaults)
        /\ cstate.platform_analysis \in {None, PlatformFailedResult}
              => PlatformFields(cfinal) = PlatformFields(FinalAnalysisDefaults)

\* A merge of a filled Technical result and a filled Persona result with the
\* Platform Specialist disabled.
C13_Witness ==
    /\ cpos = "returned"
    /\ cstate.technical_analysis # None
    /\ cstate.broad_appeal_analysis # None
    /\ cstate.platform_analysis = None
    /\ cfinal.technical_summary = "Fraud scoring demo"
    /\ cfinal.appeal_summary = "1/2 personas"
    /\ cfinal.overlap_level = "UNIQUE"
    /\ cfinal.platform_fit = "MODERATE"

\* The guardrail step of coordinator_node: from the built FinalAnalysis to the
\* returned one.
C14_Step ==
    (cpos = "built" /\ cpos' = "returned") =>
        /\ [cfinal' EXCEPT !.raw_analysis = cfinal.raw_analysis] = cfinal
        /\ cfinal'.raw_analysis =
              IF guardrail_result' # None /\ ~guardrail_result'.is_safe
              THEN <<Warning(guardrail_result'.reason)>> \o cfinal.raw_analysis
              ELSE cfinal.raw_analysis
        /\ (guardrail_result' # None /\ guardrail_result'.category = "error")
              => guardrail_result'.is_safe /\ cfinal' = cfinal

C15_Embedded(content) ==
    IF content = None THEN {}
    ELSE {v.val : v \in {w \in {json_loads(SubSeq(content.text, a, b)) :
                                   a \in 1..Len(content.text), b \in 1..Len(content.text)} :
                           IsDict(w)}}

\* C15 (as claimed): for every content an LLM call can hand over (None included)
\* and every default, parse_json_response does not raise and returns a dict
\* embedded in the text or the supplied default.
C15_ParserTotal ==
    (fcall = "parse_json_response" /\ fret # Pending) =>
        /\ fret.kind = "returns"
        /\ fret.value.type = "dict"
        /\ \/ fret.value \in C15_Embedded(fargs.content)
           \/ fret.value = (IF fargs.default = None THEN Dict(<<>>) ELSE fargs.default)

\* C16: a FinalAnalysis converted to its dict and back equals the original, for
\* every value of the four enum fields, of the score and of the list and string
\* fields; likewise a PortfolioAnalysis.
C16_RoundTrip ==
    (fcall \in {"final_analysis", "portfolio_analysis"} /\ fret # Pending) =>
        fret = Returns(fargs)

\* A FinalAnalysis whose enum values contain an underscore, back from its dict.
C16_Witness ==
    /\ fcall = "final_analysis"
    /\ fret # Pending
    /\ fret.value.overlap_level = "POSSIBLE_OVERLAP"
    /\ fret.value.development_stage = "HAS_CODE"
    /\ fret.value.broad_appeal = "BUSINESS_SPECIFIC"
    /\ fret.value.platform_fit = "EXCELLENT"
    /\ fret.value.priority_score = 10
    /\ fret.value.features_new = <<"vllm">>

Emitted == fcall = "technical_analyst_node" /\ fret # Pending

\* C17: in every TechnicalAnalysis the Technical Analyst emits, a non-empty
\* use_case_overlap excludes overlap_level UNIQUE.
C17_OverlapListedNotUnique ==
    Emitted => (fret.value.use_case_overlap # <<>> => fret.value.overlap_level # "UNIQUE")

\* A response classified UNIQUE that lists an overlap, emitted as POSSIBLE_OVERLAP.
C17_Witness ==
    /\ Emitted
    /\ "overlap_level" \in DOMAIN fargs.response
    /\ OverlapLevel_from_string(fargs.response.overlap_level) = "UNIQUE"
    /\ fret.value.use_case_overlap = <<"rag-chatbot">>
    /\ fret.value.overlap_level = "POSSIBLE_OVERLAP"

\* C18 (as claimed): in every TechnicalAnalysis the Technical Analyst emits, the
\* clarification text is non-empty exactly when the overlap is UNCLEAR or the
\* stage is neither HAS_CODE nor DETAILED_PLAN.
C18_ClarificationIffNeeded ==
    Emitted =>
        (fret.value.clarification_needed # ""
            <=> _needs_clarification(fret.value.overlap_level, fret.value.development_stage))

\* The number of evaluations of a list rated `level`.
C19_Rated(evaluations, level) ==
    Cardinality({i \in 1..Len(evaluations) : evaluations[i].relevance = level})

\* The list with the evaluations at positions i and i+1 exchanged.
C19_Swapped(evaluations, i) ==
    [j \in 1..Len(evaluations) |->
        IF j = i THEN evaluations[i + 1]
        ELSE IF j = i + 1 THEN evaluations[i]
        ELSE evaluations[j]]

\* C19: with H evaluations rated HIGH and M rated MEDIUM, determine_broad_appeal
\* returns UNIVERSAL if H+M >= 4 or H >= 3, otherwise BUSINESS_SPECIFIC if
\* H+M >= 2, otherwise TECHNICAL_ONLY, and the same for the list in any other
\* order.
C19_BroadAppealThresholds ==
    (fcall = "determine_broad_appeal" /\ fret # Pending) =>
        LET H == C19_Rated(fargs, "HIGH")
            M == C19_Rated(fargs, "MEDIUM")
        IN  /\ fret.value = IF H + M >= 4 \/ H >= 3 THEN "UNIVERSAL"
                            ELSE IF H + M >= 2 THEN "BUSINESS_SPECIFIC"
                            ELSE "TECHNICAL_ONLY"
            /\ \A i \in 1..(Len(fargs) - 1) :
                  determine_broad_appeal(C19_Swapped(fargs, i)) = fret.value

\* The evaluations [HIGH, HIGH, HIGH, NONE, NONE], classified UNIVERSAL.
C19_Witness ==
    /\ fcall = "determine_broad_appeal"
    /\ fret = Returns("UNIVERSAL")
    /\ [i \in 1..Len(fargs) |-> fargs[i].relevance] = <<"HIGH", "HIGH", "HIGH", "NONE", "NONE">>

\* What holds of the gap context in every state of a batch.
C20_State ==
    /\ analyst_runs <= 1
    /\ skip_portfolio => analyst_runs = 0 /\ portfolio = None /\ portfolio_gaps = NoGaps
    /\ (portfolio # None /\ portfolio.source = "cached")
          => analyst_runs = 0 /\ ~force_reanalyze
    /\ (force_reanalyze /\ ~skip_portfolio /\ mpc \notin {"idle", "portfolio"})
          => analyst_runs = 1
    /\ upc # <<>> =>
          /\ mpc \notin {"idle", "portfolio", "dispatch"}
          /\ portfolio_gaps = IF portfolio = None THEN NoGaps ELSE GapsOf(portfolio.kind)
          /\ \A i \in 1..Len(issues) : ugaps[i] = portfolio_gaps

\* What holds of every step of a batch.
C20_Step ==
    /\ mpc' = "portfolio" /\ mpc # "portfolio"
          => mpc \in {"idle", "returned", "raised"} /\ ~skip_portfolio'
    /\ mpc = "portfolio" => mpc' \in {"dispatch", "raised"} /\ upc' = <<>>
    /\ mpc' = "dispatch" /\ mpc # "dispatch"
          => mpc = "portfolio" \/ skip_portfolio'
    /\ (portfolio_gaps' # portfolio_gaps \/ analyst_runs' # analyst_runs)
          => mpc \in {"idle", "returned", "raised", "portfolio"}
    /\ ugaps' # ugaps => mpc \in {"idle", "returned", "raised", "dispatch"}

\* C20: in one generate_report_analysis call phase 1 is entered only at the start
\* and is over, in one piece, before any unit exists; the portfolio graph runs at
\* most once, not at all when the phase is skipped or served from the cache, and
\* once under force; and every unit of the batch holds the gap context the phase
\* produced, the empty one when it was skipped.
C20_PortfolioPhaseOnceBeforeUnits ==
    [][C20_Step /\ C20_State /\ C20_State']_vars

\* Two units analysed with the gaps a run of the Portfolio Analyst produced.
C20_Witness ==
    /\ Len(issues) = 2
    /\ ~skip_portfolio
    /\ analyst_runs = 1
    /\ portfolio # None /\ portfolio.kind = "normal"
    /\ upc # <<>>
    /\ \A i \in 1..2 : upc[i] = "done" /\ uresult[i].source = "analyzed"
                        /\ ugaps[i] = SomeGaps

\* The error texts recorded by a node result: in its errors and in its summary
\* (the summary of a successful second attempt is the note, then the text).
C21_Recorded(update) ==
    UNION {Mentions(update.errors[i]) : i \in 1..Len(update.errors)}
        \cup (IF update.attempts = 2 /\ update.errors = <<>>
              THEN Mentions(update.technical_analysis.summary[1])
              ELSE Mentions(update.technical_analysis.summary))

\* C21 (as claimed): the Technical Analyst makes a second attempt exactly when
\* the tool loop raised; it degrades only if the second attempt raised too, and
\* then records both error messages; a successful second attempt gives a normal
\* result whose summary carries the tool-loop error as a note.
C21_FallbackChain ==
    (fcall = "technical_fallback_chain" /\ fret.kind = "returns") =>
        LET update == fret.value
            degraded == update.errors # <<>>
        IN  /\ update.attempts = IF fargs.loop_error = "" THEN 1 ELSE 2
            /\ degraded <=> (fargs.loop_error # "" /\ fargs.fallback_error # "")
            /\ degraded => C21_Recorded(update) = {fargs.loop_error, fargs.fallback_error}
            /\ (fargs.loop_error # "" /\ fargs.fallback_error = "")
                  => C21_Recorded(update) = {fargs.loop_error}

\* The candidates of the five strategies, in the claimed order.
C22_Candidates(content) ==
    <<FencedBlock(content.text, "{", "}"), FencedBlock(content.text, "[", "]"),
      OutermostBlock(content.text, "{", "}"), OutermostBlock(content.text, "[", "]"),
      Text(Strip_text(content.text))>>

\* The strategies whose candidate parses to a dict.
C22_Yielding(content) ==
    {i \in 1..5 : /\ C22_Candidates(content)[i] # None
                  /\ IsDict(json_loads(C22_Candidates(content)[i].text))}

\* C22 (as claimed): parse_json_response returns the dict of the first of the
\* five strategies (fenced object, fenced array, outermost braces, outermost
\* brackets, whole trimmed text) whose candidate parses to a dict, and the
\* default only when none of the five yields a dict.
C22_FirstYieldingStrategy ==
    (fcall = "parse_json_response (long content)" /\ fret # Pending) =>
        LET yielding == C22_Yielding(fargs.content)
            first == CHOOSE i \in yielding : \A j \in yielding : i <= j
        IN  fret = IF yielding = {} THEN Returns(fargs.default)
                   ELSE Returns(json_loads(C22_Candidates(fargs.content)[first].text).val)

\* From position i on, the transcript is a sequence of blocks: an assistant
\* message requesting k >= 1 calls, then exactly k tool messages that carry
\* the ids of those calls, in call order.
RECURSIVE C23_Blocks(_, _)
C23_Blocks(msgs, i) ==
    IF i > Len(msgs) THEN TRUE
    ELSE /\ msgs[i].role = "assistant"
         /\ LET k == Len(msgs[i].tool_calls)
            IN  /\ k >= 1
                /\ i + k <= Len(msgs)
                /\ \A j \in 1..k :
                      /\ msgs[i + j].role = "tool"
                      /\ msgs[i + j].tool_call_id = msgs[i].tool_calls[j].id
                /\ C23_Blocks(msgs, i + k + 1)

\* C23: the transcript of chat_with_tools is the initial messages followed by
\* blocks "assistant turn with k >= 1 tool calls, then its k tool results in
\* call order with matching ids"; between a turn and the execution of its
\* calls only that turn's assistant message is outstanding, and the returned
\* transcript has no incomplete block and no unrequested tool result.
C23_TranscriptBlocks ==
    tpc # "idle" =>
        /\ SubSeq(messages, 1, Len(InitialMessages)) = InitialMessages
        /\ IF tpc = "EXECUTING_TOOLS"
           THEN /\ messages[Len(messages)].role = "assistant"
                /\ [i \in 1..Len(tool_calls) |-> tool_calls[i].id]
                      = [i \in 1..Len(tool_calls) |-> messages[Len(messages)].tool_calls[i].id]
                /\ Len(messages[Len(messages)].tool_calls) = Len(tool_calls)
                /\ tool_calls # <<>>
                /\ C23_Blocks(SubSeq(messages, 1, Len(messages) - 1),
                              Len(InitialMessages) + 1)
           ELSE C23_Blocks(messages, Len(InitialMessages) + 1)
        /\ returned # NoReturn =>
              /\ returned.messages = messages
              /\ C23_Blocks(returned.messages, Len(InitialMessages) + 1)

\* A returned transcript holding a turn with two calls and both its results.
C23_Witness ==
    /\ tpc = "DONE"
    /\ returned # NoReturn
    /\ \E i \in 3..(Len(returned.messages) - 2) :
          /\ returned.messages[i].role = "assistant"
          /\ Len(returned.messages[i].tool_calls) = 2
          /\ returned.messages[i + 2].role = "tool"
          /\ returned.messages[i + 2].tool_call_id = returned.messages[i].tool_calls[2].id

\* C24 (as claimed): a persona whose evaluation fails, at whatever point, gets
\* an evaluation with relevance NONE that carries the error text, and the panel
\* does not fail: whatever the completion order, it returns a result with
\* exactly one evaluation per configured persona.
C24_OneEvaluationPerPersona ==
    (fcall = "persona_panel_node" /\ fargs # <<>> /\ fret.kind \notin {"pending", "running"}) =>
        /\ fret.kind = "returns"
        /\ LET evaluations == fret.value.broad_appeal_analysis.evaluations
           IN  /\ Len(evaluations) = Len(fargs)
               /\ \A i \in 1..Len(fargs) :
                     /\ \E n \in 1..Len(evaluations) : evaluations[n].persona_id = i
                     /\ (fargs[i].entry = "not a mapping"
                            \/ fargs[i].response \in {"raises", "None"})
                          => \E n \in 1..Len(evaluations) :
                                /\ evaluations[n].persona_id = i
                                /\ evaluations[n].relevance = "NONE"
                                /\ evaluations[n].explanation = "Evaluation failed: ..."

\* C25 (as claimed): every evaluation in the panel's result has a relevance in
\* {HIGH, MEDIUM, LOW, NONE}, and every evaluated persona is in exactly one of
\* personas_who_understand and personas_who_dont.
C25_RelevanceInRange ==
    (fcall = "persona_panel_node" /\ fret.kind = "returns") =>
        LET analysis == fret.value.broad_appeal_analysis
            InList(list, name) == \E n \in 1..Len(list) : list[n] = name
        IN  \A n \in 1..Len(analysis.evaluations) :
               /\ analysis.evaluations[n].relevance \in Relevances
               /\ InList(analysis.personas_who_understand, analysis.evaluations[n].persona_name)
                    # InList(analysis.personas_who_dont, analysis.evaluations[n].persona_name)

\* The ids occurring in a list of ids, and in a list of identified features.
C26_Ids(list) == {list[n] : n \in 1..Len(list)}
C26_IdentifiedIds(list) == {list[n].id : n \in 1..Len(list)}

\* C26 (as claimed): in every PlatformAnalysis built from a response, an id
\* outside the valid set appears in none of the result's feature lists, and
\* the valid identified ids are partitioned: features_new is disjoint from the
\* demonstrated set, features_reused is inside it, and every valid identified
\* id is in exactly one of the two.
C26_UnknownDroppedValidPartitioned ==
    (fcall = "platform._build_analysis" /\ fret.kind = "returns") =>
        LET r == fret.value
            valid == C26_IdentifiedIds(fargs.response.features_identified)
                        \cap fargs.valid_ids
        IN  /\ C26_IdentifiedIds(r.features_identified) \subseteq fargs.valid_ids
            /\ C26_Ids(r.features_new) \cup C26_Ids(r.features_reused) = valid
            /\ C26_Ids(r.features_new) \cap fargs.demonstrated = {}
            /\ C26_Ids(r.features_reused) \subseteq fargs.demonstrated
            /\ C26_Ids(r.features_new) \cap C26_Ids(r.features_reused) = {}

\* A proposal that is unique and has code, with the platform result merged in.
C30_Analysis(features_new) ==
    [FinalAnalysis EXCEPT !.overlap_level = "UNIQUE", !.development_stage = "HAS_CODE",
                          !.features_new = features_new]

\* C30 (as claimed): features_new and features_reused never hold the same id
\* twice, so the new-feature bonus of the priority score is the number of
\* distinct new features, capped at 2.
C30_BonusCountsDistinct ==
    (fcall = "platform._build_analysis" /\ fret.kind = "returns") =>
        LET r == fret.value
        IN  /\ Len(r.features_new) = Cardinality(C26_Ids(r.features_new))
            /\ Len(r.features_reused) = Cardinality(C26_Ids(r.features_reused))
            /\ _calculate_priority_score(C30_Analysis(r.features_new))
                  - _calculate_priority_score(C30_Analysis(<<>>))
               = Min(Cardinality(C26_Ids(r.features_new)), 2)

\* The three sections of a gap descriptor, in the order the code visits them.
C27_Sections(gaps) ==
    <<[entries |-> gaps.industries, dict |-> industry_keywords, prefix |-> "Industry"],
      [entries |-> gaps.use_cases, dict |-> use_case_keywords, prefix |-> "Use Case"],
      [entries |-> gaps.capabilities, dict |-> capability_keywords, prefix |-> "Capability"]>>

\* The places (section, entry) whose entry names the category of the label
\* while the corpus holds one of that category's keywords.
C27_Places(label, gaps, corpus) ==
    {pl \in (1..3) \X (1..MaxGapEntries + 1) :
        LET sec == C27_Sections(gaps)[pl[1]]
        IN  /\ pl[2] <= Len(sec.entries)
            /\ \E k \in 1..Len(sec.dict) :
                  /\ GapLabel(sec.prefix, sec.dict[k].name) = label
                  /\ sec.dict[k].name \in sec.entries[pl[2]]
                  /\ sec.dict[k].keywords \cap corpus # {}}

\* C27: a label is returned only if some entry of the corresponding gap list
\* names its category and the corpus of title, body and Technical summary holds
\* one of the category's keywords; the labels are pairwise different and in
\* first-seen order; the empty descriptor gives no label.
C27_FilledOnlyIfNamedAndMatched ==
    (fcall = "_detect_portfolio_gaps_filled" /\ fret.kind = "returns") =>
        LET labels == fret.value
            corpus == WordsOf(fargs.issue.title) \cup WordsOf(fargs.issue.body)
                         \cup WordsOf(fargs.analysis.technical_summary)
        IN  IF fargs.gaps = NoGaps THEN labels = <<>>
            ELSE /\ \A n \in 1..Len(labels) :
                       C27_Places(labels[n], fargs.gaps, corpus) # {}
                 /\ \A n, o \in 1..Len(labels) : n # o => labels[n] # labels[o]
                 /\ \A n, o \in 1..Len(labels) :
                       n < o => \E pl \in C27_Places(labels[n], fargs.gaps, corpus) :
                                   \A ql \in C27_Places(labels[o], fargs.gaps, corpus) :
                                      pl[1] < ql[1] \/ (pl[1] = ql[1] /\ pl[2] <= ql[2])

\* Two labels returned, one of them for a category that two entries name, while
\* another named category is left out for lack of a keyword.
C27_Witness ==
    /\ fcall = "_detect_portfolio_gaps_filled" /\ fret.kind = "returns"
    /\ fargs.gaps # NoGaps
    /\ Len(fargs.gaps.industries) = 2
    /\ "healthcare" \in fargs.gaps.industries[1] \cap fargs.gaps.industries[2]
    /\ fargs.gaps.capabilities # <<>> /\ "speech" \in fargs.gaps.capabilities[1]
    /\ fret.value = <<"Industry: Healthcare", "Use Case: Fraud Detection">>

\* C28 (as claimed, its last clause): no process-wide mutable object is read
\* and then written by concurrent specialists without synchronization.  For
\* the module global _client: no two callers are at once between their test
\* of `_client is None` and their assignment to it, so it is assigned at most
\* once and every caller gets the same client.
C28_NoUnsynchronizedReadThenWrite ==
    (fcall = "get_client" /\ fret.kind = "running") =>
        /\ \A c, d \in fargs.callers :
              (fret.pc[c] = "constructing" /\ fret.pc[d] = "constructing") => c = d
        /\ fret.constructed <= 1
        /\ \A c, d \in fargs.callers :
              (fret.pc[c] = "returned" /\ fret.pc[d] = "returned") => fret.got[c] = fret.got[d]

\* C29 (as claimed): a work unit that ends by returning the placeholder has
\* written nothing to the analysis store: it did not get as far as opening the
\* store file for writing, and the file is what it was.
C29_Step ==
    \A i \in DOMAIN upc \cap DOMAIN upc' :
        (upc[i] # "done" /\ upc'[i] = "done" /\ uresult'[i].source = "placeholder") =>
            /\ upc[i] # "writing"
            /\ analysis_file' = analysis_file
C29_PlaceholderWroteNothing == [][C29_Step]_vars

====
